---- MODULE Spec2Model ----
(***************************************************************************)
(* A model of csvbuddy: the field descriptor resolver (reflect.go), the    *)
(* value converters (reflect.go, decoder.go), the header binder, and the   *)
(* decode and encode drivers (decoder.go, encoder).                        *)
(*                                                                         *)
(* Text is a sequence of one-character strings, so that parsing and        *)
(* formatting are computed character by character as strconv does.         *)
(* A pointer value is <<>> (nil) or <<v>> (pointing at v).  A struct value *)
(* is the sequence of its field values, in declaration order.              *)
(***************************************************************************)
EXTENDS Integers, Sequences, FiniteSets, TLC

\* ------------------------------------------------------------------------
\* Bounds of the model.

\* Largest number of data rows (or records) of one session.
MaxRows == 2

\* Largest number of fields of one CSV row.
MaxCols == 2

\* Largest number of fields of a generated record type.
MaxFields == 2

\* Largest number of fields of the data rows of one input together.
MaxCells == 4

\* ------------------------------------------------------------------------
\* Characters and text.

Digits == <<"0", "1", "2", "3", "4", "5", "6", "7", "8", "9",
            "a", "b", "c", "d", "e", "f">>

Lower == <<"a", "b", "c", "d", "e", "f", "t", "r", "u", "l", "s", "x", "y">>

Upper == <<"A", "B", "C", "D", "E", "F", "T", "R", "U", "L", "S", "X", "Y">>

IndexIn(seq, c) ==
    IF \E i \in 1..Len(seq) : seq[i] = c
    THEN CHOOSE i \in 1..Len(seq) : seq[i] = c
    ELSE 0

\* strings.ToUpper on one character.
UpperChar(c) == IF IndexIn(Lower, c) > 0 THEN Upper[IndexIn(Lower, c)] ELSE c

LowerChar(c) == IF IndexIn(Upper, c) > 0 THEN Lower[IndexIn(Upper, c)] ELSE c

ToUpper(s) == [i \in 1..Len(s) |-> UpperChar(s[i])]

Tail2(s, n) == SubSeq(s, n + 1, Len(s))

HasPrefix(s, p) == Len(s) >= Len(p) /\ SubSeq(s, 1, Len(p)) = p

\* strings.IndexByte: the 0-based index of the first c in s, or -1.
IndexByte(s, c) == IndexIn(s, c) - 1

Pow2(n) == 2 ^ n

\* ------------------------------------------------------------------------
\* strconv.

\* The value of a digit character in any base up to 16, or 99.
DigitVal(c) ==
    LET Val(i) == IF i > 0 THEN i - 1 ELSE 99
    IN Val(IndexIn(Digits, LowerChar(c)))

RECURSIVE DigitsValue(_, _, _)
DigitsValue(s, base, acc) ==
    IF s = <<>> THEN acc
    ELSE DigitsValue(Tail(s), base, acc * base + DigitVal(Head(s)))

AllDigits(s, base) == \A i \in 1..Len(s) : DigitVal(s[i]) < base

\* strconv.ParseUint(s, base, bitSize) for 2 <= base <= 16.
ParseUint(s, base, bitSize) ==
    LET InRange(n) == IF bitSize < 31 /\ n >= Pow2(bitSize)
                      THEN [err |-> "range", v |-> 0]
                      ELSE [err |-> "", v |-> n]
    IN IF s = <<>> \/ ~AllDigits(s, base) THEN [err |-> "syntax", v |-> 0]
       ELSE InRange(DigitsValue(s, base, 0))

\* strconv.ParseInt(s, base, bitSize) for 2 <= base <= 16.
ParseInt(s, base, bitSize) ==
    LET neg  == s # <<>> /\ Head(s) = "-"
        body == IF s # <<>> /\ Head(s) \in {"-", "+"} THEN Tail(s) ELSE s
        Signed(u, lim) ==
            IF s = <<>> \/ u.err # "" THEN [err |-> "syntax", v |-> 0]
            ELSE IF bitSize < 31 /\ ~neg /\ u.v >= lim THEN [err |-> "range", v |-> 0]
            ELSE IF bitSize < 31 /\ neg /\ u.v > lim THEN [err |-> "range", v |-> 0]
            ELSE [err |-> "", v |-> IF neg THEN 0 - u.v ELSE u.v]
    IN Signed(ParseUint(body, base, 31), IF bitSize < 31 THEN Pow2(bitSize - 1) ELSE 0)

\* strconv.Atoi.
Atoi(s) == ParseInt(s, 10, 64)

RECURSIVE FormatUint(_, _)
FormatUint(n, base) ==
    IF n < base THEN <<Digits[n + 1]>>
    ELSE FormatUint(n \div base, base) \o <<Digits[(n % base) + 1]>>

FormatInt(n, base) ==
    IF n < 0 THEN <<"-">> \o FormatUint(0 - n, base) ELSE FormatUint(n, base)

TrueTexts == { <<"1">>, <<"t">>, <<"T">>, <<"t", "r", "u", "e">>,
               <<"T", "R", "U", "E">>, <<"T", "r", "u", "e">> }

FalseTexts == { <<"0">>, <<"f">>, <<"F">>, <<"f", "a", "l", "s", "e">>,
                <<"F", "A", "L", "S", "E">>, <<"F", "a", "l", "s", "e">> }

ParseBool(s) ==
    IF s \in TrueTexts THEN [err |-> "", v |-> TRUE]
    ELSE IF s \in FalseTexts THEN [err |-> "", v |-> FALSE]
    ELSE [err |-> "syntax", v |-> FALSE]

FormatBool(b) == IF b THEN <<"t", "r", "u", "e">> ELSE <<"f", "a", "l", "s", "e">>

\* ------------------------------------------------------------------------
\* Go types.  A type is a record: kind is its reflect.Kind ("ByteSlice" for
\* a slice convertible to []byte); um and tm say whether a pointer to it
\* implements encoding.TextUnmarshaler and encoding.TextMarshaler; elem is
\* <<t>> for a pointer to t; fields are the field declarations of a struct.

Prim(k) == [kind |-> k, um |-> FALSE, tm |-> FALSE, elem |-> <<>>, fields |-> <<>>]

PtrTo(t) == [kind |-> "Ptr", um |-> FALSE, tm |-> FALSE, elem |-> <<t>>, fields |-> <<>>]

StructOf(fs) == [kind |-> "Struct", um |-> FALSE, tm |-> FALSE, elem |-> <<>>, fields |-> fs]

\* A type with the text capabilities given (type uppercase string of the tests).
TextType(k, u, m) == [kind |-> k, um |-> u, tm |-> m, elem |-> <<>>, fields |-> <<>>]

\* A field declaration: Go identifier, whether a csv tag is present, the tag.
Field(name, exported, anonymous, hasTag, tag, type) ==
    [Name |-> name, Exported |-> exported, Anonymous |-> anonymous,
     HasTag |-> hasTag, Tag |-> tag, Type |-> type]

IntKinds == {"Int8", "Int16", "Int32", "Int64", "Int"}

UintKinds == {"Uint8", "Uint16", "Uint32", "Uint64", "Uint"}

BitSizeOf(k) ==
    CASE k \in {"Int8", "Uint8"} -> 8
      [] k \in {"Int16", "Uint16"} -> 16
      [] k \in {"Int32", "Uint32", "Float32"} -> 32
      [] k \in {"Complex128"} -> 128
      [] OTHER -> 64

RECURSIVE Deref(_)
Deref(t) == IF t.kind = "Ptr" THEN Deref(t.elem[1]) ELSE t

RECURSIVE PtrDepth(_)
PtrDepth(t) == IF t.kind = "Ptr" THEN 1 + PtrDepth(t.elem[1]) ELSE 0

\* reflect.Zero: the zero value of a type.  The value of a type with a text
\* capability is the text its methods store and return.
RECURSIVE Zero(_)
Zero(t) ==
    CASE t.um \/ t.tm -> <<>>
      [] t.kind = "Bool" -> FALSE
      [] t.kind \in IntKinds \cup UintKinds -> 0
      [] t.kind = "Struct" -> [i \in 1..Len(t.fields) |-> Zero(t.fields[i].Type)]
      [] OTHER -> <<>>

\* reflect.Value.SetInt, SetUint: the value is stored truncated to the width
\* of the destination.
WrapInt(x, bits) ==
    IF bits >= 31 THEN x
    ELSE LET m == x % Pow2(bits)
         IN IF m >= Pow2(bits - 1) THEN m - Pow2(bits) ELSE m

WrapUint(x, bits) == IF bits >= 31 THEN x ELSE x % Pow2(bits)

\* ------------------------------------------------------------------------
\* The converters of reflect.go.  A converter is a record: c names the codec
\* struct, ptr says whether it is wrapped in a ptrCodec.

Codec(c, bits, base, prec, ffmt) ==
    [c |-> c, bits |-> bits, base |-> base, prec |-> prec, fmt |-> ffmt, ptr |-> FALSE]

NoCodec == Codec("none", 0, 0, 0, "")

PtrCodec(inner) == [inner EXCEPT !.ptr = TRUE]

\* UnmarshalText and MarshalText of the text type of the tests.
UnmarshalText(s) == [err |-> "", v |-> ToUpper(s)]

MarshalText(v) == [err |-> "", s |-> v]

\* The Decode method of a converter that is not a ptrCodec, on a value of
\* type t holding old: the error, and the value stored.
CodecDecode(cd, t, old, s) ==
    CASE cd.c = "bool" ->
            LET r == ParseBool(s)
            IN [err |-> r.err, v |-> IF r.err = "" THEN r.v ELSE old]
      [] cd.c = "int" ->
            LET r == ParseInt(s, cd.base, cd.bits)
            IN [err |-> r.err, v |-> IF r.err = "" THEN WrapInt(r.v, BitSizeOf(t.kind)) ELSE old]
      [] cd.c = "uint" ->
            LET r == ParseUint(s, cd.base, cd.bits)
            IN [err |-> r.err, v |-> IF r.err = "" THEN WrapUint(r.v, BitSizeOf(t.kind)) ELSE old]
      [] cd.c = "string" -> [err |-> "", v |-> s]
      [] cd.c = "bytes" -> [err |-> "", v |-> s]
      [] cd.c = "text" ->
            IF t.um
            THEN LET r == UnmarshalText(s)
                 IN [err |-> r.err, v |-> IF r.err = "" THEN r.v ELSE old]
            ELSE [err |-> "notUnmarshaler", v |-> old]
      [] OTHER -> [err |-> "unsupported", v |-> old]

\* The Encode method of a converter that is not a ptrCodec.
CodecEncode(cd, t, v) ==
    CASE cd.c = "bool" -> [err |-> "", s |-> FormatBool(v)]
      [] cd.c = "int" -> [err |-> "", s |-> FormatInt(v, cd.base)]
      [] cd.c = "uint" -> [err |-> "", s |-> FormatUint(v, cd.base)]
      [] cd.c = "string" -> [err |-> "", s |-> v]
      [] cd.c = "bytes" -> [err |-> "", s |-> v]
      [] cd.c = "text" ->
            IF t.tm THEN MarshalText(v) ELSE [err |-> "notMarshaler", s |-> <<>>]
      [] OTHER -> [err |-> "unsupported", s |-> <<>>]

\* n pointer levels around v.
RECURSIVE Wrap(_, _)
Wrap(v, n) == IF n = 0 THEN v ELSE <<Wrap(v, n - 1)>>

\* A faulty ptrCodec.Decode that has lost the test for the empty string.
PtrDecodeEager(cd, t, old, s) ==
    LET r == CodecDecode(cd, Deref(t), Zero(Deref(t)), s)
    IN [err |-> r.err, v |-> Wrap(r.v, PtrDepth(t)),
        alloc |-> PtrDepth(t) > 0, inner |-> TRUE]

\* ptrCodec.Decode: the error, the value stored, whether storage was
\* allocated and whether the inner converter was invoked.
PtrDecode(cd, t, old, s) ==
    IF s = <<>>
    THEN [err |-> "", v |-> old, alloc |-> FALSE, inner |-> FALSE]
    ELSE LET r == CodecDecode(cd, Deref(t), Zero(Deref(t)), s)
         IN [err |-> r.err, v |-> Wrap(r.v, PtrDepth(t)),
             alloc |-> PtrDepth(t) > 0, inner |-> TRUE]

\* A faulty ptrCodec.Encode that tests the outermost pointer only: a nil
\* below it is encoded as the zero value of the innermost type.
RECURSIVE EncodeNilAsZero(_, _, _)
EncodeNilAsZero(cd, t, v) ==
    IF t.kind = "Ptr"
    THEN IF v = <<>> THEN EncodeNilAsZero(cd, Deref(t), Zero(Deref(t)))
         ELSE EncodeNilAsZero(cd, t.elem[1], v[1])
    ELSE LET r == CodecEncode(cd, t, v)
         IN [err |-> r.err, s |-> r.s, inner |-> TRUE]

PtrEncodeOuterNil(cd, t, v) ==
    IF v = <<>> THEN [err |-> "", s |-> <<>>, inner |-> FALSE]
    ELSE EncodeNilAsZero(cd, t.elem[1], v[1])

\* ptrCodec.Encode: the pointers are followed; a nil at any level is "".
RECURSIVE PtrEncode(_, _, _)
PtrEncode(cd, t, v) ==
    IF t.kind = "Ptr"
    THEN IF v = <<>> THEN [err |-> "", s |-> <<>>, inner |-> FALSE]
         ELSE PtrEncode(cd, t.elem[1], v[1])
    ELSE LET r == CodecEncode(cd, t, v)
         IN [err |-> r.err, s |-> r.s, inner |-> TRUE]

\* converter.Decode as called through the interface.
Decode(cd, t, old, s) ==
    IF cd.ptr THEN PtrDecode(cd, t, old, s)
    ELSE LET r == CodecDecode(cd, t, old, s)
         IN [err |-> r.err, v |-> r.v, alloc |-> FALSE, inner |-> TRUE]

\* converter.Encode as called through the interface.
Encode(cd, t, v) ==
    IF cd.ptr THEN PtrEncode(cd, t, v)
    ELSE LET r == CodecEncode(cd, t, v)
         IN [err |-> r.err, s |-> r.s, inner |-> TRUE]

implementsTextMarshaler(t) == t.um \/ t.tm

\* The codec newValueConverter picks for a kind that is not a pointer, or
\* NoCodec.
KindCodec(t, base, prec, ffmt) ==
    CASE t.kind = "Bool" -> Codec("bool", 0, 0, 0, "")
      [] t.kind \in {"Complex64", "Complex128"} ->
            Codec("complex", BitSizeOf(t.kind), 0, prec, ffmt)
      [] t.kind \in {"Float32", "Float64"} ->
            Codec("float", BitSizeOf(t.kind), 0, prec, ffmt)
      [] t.kind \in IntKinds -> Codec("int", BitSizeOf(t.kind), base, 0, "")
      [] t.kind = "String" -> Codec("string", 0, 0, 0, "")
      [] t.kind \in UintKinds -> Codec("uint", BitSizeOf(t.kind), base, 0, "")
      [] t.kind = "ByteSlice" -> Codec("bytes", 0, 0, 0, "")
      [] OTHER -> NoCodec

TextCodec == Codec("text", 0, 0, 0, "")

\* A faulty newValueConverter that switches on the kind before it looks for
\* the text capability.
newValueConverterKindFirst(t, name, base, prec, ffmt) ==
    LET e == IF t.kind = "Ptr" THEN Deref(t) ELSE t
        c == IF KindCodec(e, base, prec, ffmt) # NoCodec
             THEN KindCodec(e, base, prec, ffmt)
             ELSE IF implementsTextMarshaler(e) THEN TextCodec ELSE NoCodec
    IN IF c = NoCodec THEN [err |-> "cannot decode field", codec |-> NoCodec]
       ELSE [err |-> "", codec |-> IF t.kind = "Ptr" THEN PtrCodec(c) ELSE c]

newValueConverter(t, name, base, prec, ffmt) ==
    IF implementsTextMarshaler(t) THEN [err |-> "", codec |-> TextCodec]
    ELSE IF t.kind = "Ptr"
    THEN IF implementsTextMarshaler(Deref(t))
         THEN [err |-> "", codec |-> PtrCodec(TextCodec)]
         ELSE IF KindCodec(Deref(t), base, prec, ffmt) # NoCodec
              THEN [err |-> "", codec |-> PtrCodec(KindCodec(Deref(t), base, prec, ffmt))]
              ELSE [err |-> "cannot decode field", codec |-> NoCodec]
    ELSE IF KindCodec(t, base, prec, ffmt) # NoCodec
         THEN [err |-> "", codec |-> KindCodec(t, base, prec, ffmt)]
         ELSE [err |-> "cannot decode field", codec |-> NoCodec]

\* ------------------------------------------------------------------------
\* The field descriptor resolver of reflect.go.

\* strings.Contains.
Contains(s, p) == \E i \in 0..(Len(s) - Len(p)) : SubSeq(s, i + 1, i + Len(p)) = p

FmtChars == {"b", "e", "E", "f", "g", "G", "x", "X"}

\* One segment of a tag applied to the values parsed so far.  Indexing the
\* segment "fmt=" at position 4 is out of range and panics.
ApplySegment(val, r) ==
    LET Set(key, n) == IF n.err = "" THEN [r EXCEPT ![key] = n.v] ELSE r
    IN IF HasPrefix(val, <<"b", "a", "s", "e", "=">>) \/ HasPrefix(val, <<"p", "r", "e", "c", "=">>)
       THEN Set(IF Head(val) = "b" THEN "base" ELSE "prec", Atoi(Tail2(val, 5)))
       ELSE IF HasPrefix(val, <<"f", "m", "t", "=">>)
       THEN IF Len(val) < 5 THEN [r EXCEPT !.panic = TRUE]
            ELSE IF val[5] \in FmtChars THEN [r EXCEPT !.fmt = val[5]] ELSE r
       ELSE r

RECURSIVE ParseSegments(_, _)
ParseSegments(tag, r) ==
    LET Split(i) ==
            \* val, tag = tag, "" or val, tag = tag[:i], tag[i+1:]
            IF i = -1 THEN [val |-> tag, tag |-> <<>>]
            ELSE [val |-> SubSeq(tag, 1, i), tag |-> Tail2(tag, i + 1)]
        Step(p) == ParseSegments(p.tag, ApplySegment(p.val, r))
    IN IF tag = <<>> \/ r.panic THEN r
       ELSE Step(Split(IndexByte(tag, ",")))

parseTag(tag) ==
    LET d == [name |-> tag, base |-> 10, prec |-> -1, fmt |-> "f", panic |-> FALSE]
        From(i) == IF i = -1 THEN d
                   ELSE ParseSegments(Tail2(tag, i + 1), [d EXCEPT !.name = SubSeq(tag, 1, i)])
    IN From(IndexByte(tag, ","))

\* A field descriptor (structField): Index is the 0-based path to the field.
StructField(index, name, codec) == [Index |-> index, Name |-> name, codec |-> codec]

\* The name, base, precision and format of a field declaration.
FieldParams(f) ==
    LET Named(p) == IF p.name = <<>> THEN [p EXCEPT !.name = f.Name] ELSE p
    IN Named(IF f.HasTag THEN parseTag(f.Tag)
             ELSE [name |-> <<>>, base |-> 10, prec |-> -1, fmt |-> "f", panic |-> FALSE])

\* Whether appendStructFields recurses into the field.
IsInline(f) ==
    /\ f.Type.kind = "Struct"
    /\ f.Anonymous \/ (f.HasTag /\ Contains(f.Tag, <<",", "i", "n", "l", "i", "n", "e">>))

\* A faulty NameExists that never finds the name.
NameExistsNever(names, name) == FALSE

\* Whether a column name was given to an earlier field.
NameExists(names, name) == name \in names

\* A faulty appendStructFields that descends into an inline struct with the
\* index of the parent instead of the index extended by the field.
RECURSIVE appendStructFieldsNoPrefix(_, _, _, _)
appendStructFieldsNoPrefix(t, index, i, acc) ==
    IF acc.err # "" \/ i >= Len(t.fields) THEN acc
    ELSE LET f == t.fields[i + 1]
             Add(p, cv) ==
                 IF cv.err # ""
                 THEN [acc EXCEPT !.err = cv.err]
                 ELSE [err |-> "",
                       fields |-> Append(acc.fields,
                                         StructField(Append(index, i), p.name, cv.codec)),
                       names |-> acc.names \cup {p.name}]
             Own(p) ==
                 IF p.panic THEN [acc EXCEPT !.err = "panic"]
                 ELSE IF p.name = <<"-">> THEN acc
                 ELSE IF p.name \in acc.names
                 THEN [acc EXCEPT !.err = "duplicate field name"]
                 ELSE Add(p, newValueConverter(f.Type, p.name, p.base, p.prec, p.fmt))
         IN appendStructFieldsNoPrefix(t, index, i + 1,
                IF ~f.Exported THEN acc
                ELSE IF IsInline(f)
                THEN appendStructFieldsNoPrefix(f.Type, index, 0, acc)
                ELSE Own(FieldParams(f)))

\* appendStructFields(t, index, fields, names) from field i (0-based) on;
\* acc holds the error, the fields and the names found so far.
RECURSIVE appendStructFields(_, _, _, _)
appendStructFields(t, index, i, acc) ==
    IF acc.err # "" \/ i >= Len(t.fields) THEN acc
    ELSE LET f == t.fields[i + 1]
             Add(p, cv) ==
                 \* the field with the parameters p and the converter cv
                 IF cv.err # ""
                 THEN [acc EXCEPT !.err = cv.err]
                 ELSE [err |-> "",
                       fields |-> Append(acc.fields,
                                         StructField(Append(index, i), p.name, cv.codec)),
                       names |-> acc.names \cup {p.name}]
             Own(p) ==
                 \* the field is not inline: its name decides
                 IF p.panic THEN [acc EXCEPT !.err = "panic"]
                 ELSE IF p.name = <<"-">> THEN acc
                 ELSE IF NameExists(acc.names, p.name)
                 THEN [acc EXCEPT !.err = "duplicate field name"]
                 ELSE Add(p, newValueConverter(f.Type, p.name, p.base, p.prec, p.fmt))
         IN appendStructFields(t, index, i + 1,
                IF ~f.Exported THEN acc
                ELSE IF IsInline(f)
                THEN appendStructFields(f.Type, Append(index, i), 0, acc)
                ELSE Own(FieldParams(f)))

\* The part of structFieldsOf that runs on a cache miss.
ResolveFields(t) ==
    LET Result(r) == IF r.err # "" THEN [err |-> r.err, fields |-> <<>>]
                     ELSE [err |-> "", fields |-> r.fields]
    IN Result(appendStructFields(t, <<>>, 0, [err |-> "", fields |-> <<>>, names |-> {}]))

\* A resolver that remembers a failed resolution as an empty list.
structFieldsOfStoreFailure(cache, t) ==
    IF t \in DOMAIN cache
    THEN [err |-> "", fields |-> cache[t], cache |-> cache]
    ELSE LET Stored(r) ==
                 [err |-> r.err, fields |-> r.fields, cache |-> (t :> r.fields) @@ cache]
         IN Stored(ResolveFields(t))

\* structFieldsOf(t) on the cache given: the result and the cache afterwards.
structFieldsOf(cache, t) ==
    IF t \in DOMAIN cache
    THEN [err |-> "", fields |-> cache[t], cache |-> cache]
    ELSE LET Stored(r) ==
                 [err |-> r.err, fields |-> r.fields,
                  cache |-> IF r.err = "" THEN (t :> r.fields) @@ cache ELSE cache]
         IN Stored(ResolveFields(t))

\* reflect.Value.FieldByIndex: the value, and the type, at a field path.
RECURSIVE FieldByIndex(_, _)
FieldByIndex(v, index) ==
    IF index = <<>> THEN v ELSE FieldByIndex(v[Head(index) + 1], Tail(index))

RECURSIVE TypeByIndex(_, _)
TypeByIndex(t, index) ==
    IF index = <<>> THEN t
    ELSE TypeByIndex(t.fields[Head(index) + 1].Type, Tail(index))

\* The struct value v with the field at the path set to x.
RECURSIVE SetByIndex(_, _, _)
SetByIndex(v, index, x) ==
    IF index = <<>> THEN x
    ELSE [v EXCEPT ![Head(index) + 1] = SetByIndex(v[Head(index) + 1], Tail(index), x)]

\* ------------------------------------------------------------------------
\* The header binder.

\* A faulty HasDuplicate that lets every header pass.
HasDuplicateNever(header) == FALSE

HasDuplicate(header) ==
    \E i, j \in 1..Len(header) : i < j /\ header[i] = header[j]

\* A faulty MatchColumn that binds column i to field i, whatever the names.
MatchColumnByPosition(i, col, fields, j) ==
    IF i < Len(fields) THEN <<i, i>> ELSE <<>>

\* The 0-based indices j of the fields named col, as pairs <<i, j>>, in
\* field order.
RECURSIVE MatchColumn(_, _, _, _)
MatchColumn(i, col, fields, j) ==
    IF j >= Len(fields) THEN <<>>
    ELSE (IF fields[j + 1].Name = col THEN <<i, j>> ELSE <<>>)
         \o MatchColumn(i, col, fields, j + 1)

\* The loop over the header columns, from column i (0-based) on.
RECURSIVE MatchHeader(_, _, _)
MatchHeader(header, fields, i) ==
    IF i >= Len(header) THEN <<>>
    ELSE MatchColumn(i, header[i + 1], fields, 0) \o MatchHeader(header, fields, i + 1)

\* headerIndices(header, fields) of reflect.go.
headerIndices(header, fields) ==
    IF HasDuplicate(header)
    THEN [err |-> "duplicate header name", indices |-> <<>>]
    ELSE [err |-> "", indices |-> MatchHeader(header, fields, 0)]

\* A faulty headerOf that fills the header from its end.
HeaderOfFieldsReversed(fields) ==
    [i \in 1..Len(fields) |-> fields[Len(fields) + 1 - i].Name]

\* headerOf: the names of the fields, in order.
HeaderOfFields(fields) == [i \in 1..Len(fields) |-> fields[i].Name]

\* ------------------------------------------------------------------------
\* The decoder of decoder.go.

\* kindOf: the kind a field is decoded as.  A type with the unmarshal
\* capability is "textUnmarshaler", integers of every width are "Int64" and
\* "Uint64", a pointer is "Ptr" if its element has a kind, and a type with
\* no kind is "Invalid".
RECURSIVE kindOf(_)
kindOf(t) ==
    IF t.um THEN "textUnmarshaler"
    ELSE IF t.kind \in {"Bool", "String"} THEN t.kind
    ELSE IF t.kind \in {"Complex64", "Complex128"} THEN "Complex128"
    ELSE IF t.kind \in IntKinds THEN "Int64"
    ELSE IF t.kind \in UintKinds THEN "Uint64"
    ELSE IF t.kind \in {"Float32", "Float64"} THEN "Float64"
    ELSE IF t.kind = "Ptr" /\ kindOf(t.elem[1]) # "Invalid" THEN "Ptr"
    ELSE IF t.kind = "ByteSlice" THEN "byteSlice"
    ELSE "Invalid"

\* decodeField(v, kind, name, value) on a value of type t holding old: the
\* error, the value stored, whether storage was allocated and whether a
\* conversion below the pointer was invoked.
RECURSIVE decodeField(_, _, _, _)
decodeField(t, old, kind, value) ==
    CASE kind = "Bool" ->
            LET r == ParseBool(value)
            IN [err |-> r.err, v |-> IF r.err = "" THEN r.v ELSE old,
                alloc |-> FALSE, inner |-> TRUE]
      [] kind = "Int64" ->
            LET r == ParseInt(value, 10, 64)
            IN [err |-> r.err,
                v |-> IF r.err = "" THEN WrapInt(r.v, BitSizeOf(t.kind)) ELSE old,
                alloc |-> FALSE, inner |-> TRUE]
      [] kind = "Ptr" ->
            IF value # <<>>
            THEN LET e == t.elem[1]
                     r == decodeField(e, Zero(e), kindOf(e), value)
                 IN [err |-> r.err, v |-> <<r.v>>, alloc |-> TRUE, inner |-> TRUE]
            ELSE [err |-> "", v |-> old, alloc |-> FALSE, inner |-> FALSE]
      [] kind = "String" ->
            [err |-> "", v |-> value, alloc |-> FALSE, inner |-> TRUE]
      [] kind = "Uint64" ->
            LET r == ParseUint(value, 10, 64)
            IN [err |-> r.err,
                v |-> IF r.err = "" THEN WrapUint(r.v, BitSizeOf(t.kind)) ELSE old,
                alloc |-> FALSE, inner |-> TRUE]
      [] kind = "byteSlice" ->
            [err |-> "", v |-> value, alloc |-> FALSE, inner |-> TRUE]
      [] kind = "textUnmarshaler" ->
            LET r == UnmarshalText(value)
            IN [err |-> r.err, v |-> IF r.err = "" THEN r.v ELSE old,
                alloc |-> FALSE, inner |-> TRUE]
      [] OTHER ->
            [err |-> "cannot decode field", v |-> old, alloc |-> FALSE, inner |-> FALSE]

\* A hook that is never applied.
cleanerFuncIgnored(hook, column, field) == field

\* The cleaning hooks of the model: the default of NewDecoder, and the hook
\* of TestCleanerFunc (an empty field of column B becomes "0").
cleanerFunc(hook, column, field) ==
    IF hook = "zeroB" /\ column = <<"B">> /\ field = <<>> THEN <<"0">> ELSE field

\* A faulty ColumnValue that reads the last field of a short record.
ColumnValueLast(record, fieldidx) ==
    IF fieldidx < Len(record) THEN record[fieldidx + 1]
    ELSE IF record = <<>> THEN <<>> ELSE record[Len(record)]

\* The value of a bound column of a record: the field if it is in range,
\* the empty string otherwise.
ColumnValue(record, fieldidx) ==
    IF fieldidx < Len(record) THEN record[fieldidx + 1] ELSE <<>>

\* The field position reported for a conversion error.
ErrorField(record, fieldidx) ==
    IF fieldidx >= Len(record) THEN Len(record) - 1 ELSE fieldidx

NoError == [kind |-> "", field |-> 0]

\* The loop of decodeFunc over the (column, field) pairs of one record, from
\* pair k (0-based) on.  acc holds the struct value, the calls made to the
\* cleaning hook and the converter, and the error that stopped the loop.
\* A faulty loop that goes on after a conversion error and reports the
\* last one.
RECURSIVE DecodePairsLastError(_, _, _, _, _, _, _)
DecodePairsLastError(t, fields, indices, record, hook, k, acc) ==
    IF 2 * k >= Len(indices) THEN acc
    ELSE LET fieldidx == indices[2 * k + 1]
             field    == fields[indices[2 * k + 2] + 1]
             ft       == TypeByIndex(t, field.Index)
             raw      == ColumnValue(record, fieldidx)
             value    == cleanerFunc(hook, field.Name, raw)
             r        == decodeField(ft, FieldByIndex(acc.val, field.Index), kindOf(ft), value)
             call     == [column |-> fieldidx, name |-> field.Name, raw |-> raw,
                          value |-> value, alloc |-> r.alloc, inner |-> r.inner]
             next     == [val |-> SetByIndex(acc.val, field.Index, r.v),
                          calls |-> Append(acc.calls, call),
                          err |-> IF r.err = "" THEN acc.err
                                  ELSE [kind |-> r.err, field |-> ErrorField(record, fieldidx)]]
         IN DecodePairsLastError(t, fields, indices, record, hook, k + 1, next)

RECURSIVE DecodePairs(_, _, _, _, _, _, _)
DecodePairs(t, fields, indices, record, hook, k, acc) ==
    IF 2 * k >= Len(indices) THEN acc
    ELSE LET fieldidx == indices[2 * k + 1]
             field    == fields[indices[2 * k + 2] + 1]
             ft       == TypeByIndex(t, field.Index)
             raw      == ColumnValue(record, fieldidx)
             value    == cleanerFunc(hook, field.Name, raw)
             r        == decodeField(ft, FieldByIndex(acc.val, field.Index), kindOf(ft), value)
             call     == [column |-> fieldidx, name |-> field.Name, raw |-> raw,
                          value |-> value, alloc |-> r.alloc, inner |-> r.inner]
             next     == [val |-> SetByIndex(acc.val, field.Index, r.v),
                          calls |-> Append(acc.calls, call),
                          err |-> IF r.err = "" THEN NoError
                                  ELSE [kind |-> r.err, field |-> ErrorField(record, fieldidx)]]
         IN IF r.err # "" THEN next
            ELSE DecodePairs(t, fields, indices, record, hook, k + 1, next)

\* Whether the disallow-short-fields rule rejects the record.
TooShort(short, record, fields) == short /\ Len(record) < Len(fields)

\* A faulty TooLong that lets one extra column pass.
TooLongByTwo(unknown, record, fields) == unknown /\ Len(record) > Len(fields) + 1

\* Whether the disallow-unknown-fields rule rejects the record.
TooLong(unknown, record, fields) == unknown /\ Len(record) > Len(fields)

\* One record through the body of the loop of decodeFunc, up to the call of
\* fn: the struct value, the calls made and the error.
DecodeRecord(t, fields, indices, record, hook, unknown, short) ==
    IF TooLong(unknown, record, fields) \/ TooShort(short, record, fields)
    THEN [val |-> Zero(t), calls |-> <<>>, err |-> [kind |-> "ErrFieldCount", field |-> 0]]
    ELSE DecodePairs(t, fields, indices, record, hook, 0,
                     [val |-> Zero(t), calls |-> <<>>, err |-> NoError])

\* ------------------------------------------------------------------------
\* The inputs of the sessions.

NameA == <<"A">>

NameB == <<"B">>

NameC == <<"C">>

Plain(name, type) == Field(name, TRUE, FALSE, FALSE, <<>>, type)

Tagged(name, tag, type) == Field(name, TRUE, FALSE, TRUE, tag, type)

Unexported(name, type) == Field(name, FALSE, FALSE, FALSE, <<>>, type)

Embedded(name, type) == Field(name, TRUE, TRUE, FALSE, <<>>, type)

\* type uppercase string, with UnmarshalText and MarshalText.
Uppercase == TextType("String", TRUE, TRUE)

\* struct { A bool; B string }
TBoolStr == StructOf(<<Plain(NameA, Prim("Bool")), Plain(NameB, Prim("String"))>>)

\* struct { A int8; B *int }
TIntOpt == StructOf(<<Plain(NameA, Prim("Int8")), Plain(NameB, PtrTo(Prim("Int")))>>)

\* struct { c string; A int8; D string `csv:"-"` }
TOne == StructOf(<<Unexported(<<"c">>, Prim("String")), Plain(NameA, Prim("Int8")),
                   Tagged(<<"D">>, <<"-">>, Prim("String"))>>)

\* struct { A int `csv:"B"`; B int `csv:"B"` }: does not resolve.
TDup == StructOf(<<Tagged(NameA, NameB, Prim("Int")), Tagged(NameB, NameB, Prim("Int"))>>)

DecodeTypes == {TBoolStr, TIntOpt, TOne, TDup}

\* The headers a caller declares, and the header rows of the input.
Headers == { <<NameB, NameA>>, <<NameA, NameA>>, <<NameC, NameA>>, <<NameB>> }

HeaderRows == { <<NameA, NameB>>, <<NameA, NameA>> }

Texts == { <<>>, <<"1">>, <<"x">> }

\* The sequences of length lo..hi over the set S.
SeqsOf(S, lo, hi) == UNION { [1..n -> S] : n \in lo..hi }

Rows == SeqsOf(Texts, 1, MaxCols)

\* What Reader.Read returns: a record, or an error that is not io.EOF.
Item(row) == [err |-> FALSE, row |-> row]

ReadError == [err |-> TRUE, row |-> <<>>]

RowItems(rows) == [i \in 1..Len(rows) |-> Item(rows[i])]

\* The number of fields of the rows together.
RECURSIVE Cells(_)
Cells(rs) == IF rs = <<>> THEN 0 ELSE Len(Head(rs)) + Cells(Tail(rs))

RowSeqs(n) == { rs \in SeqsOf(Rows, 0, n) : Cells(rs) <= MaxCells }

\* The streams of data rows: any rows, or fewer rows and then an error.
DataStreams ==
    { RowItems(rs) : rs \in RowSeqs(MaxRows) }
    \cup { Append(RowItems(rs), ReadError) : rs \in RowSeqs(MaxRows - 1) }

\* A Decoder as configured by its setters.
Decoder(t, h, skip, unknown, short, hook) ==
    [type |-> t, header |-> h, skipInvalidRows |-> skip, noUnknownFields |-> unknown,
     noShortFields |-> short, hook |-> hook]

\* The decoder of NewDecoder, for a record type.
NewDecoder(t) == Decoder(t, <<>>, FALSE, FALSE, FALSE, "identity")

Decoders ==
    { Decoder(t, h, skip, unknown, short, "identity") :
        t \in DecodeTypes \ {TDup}, h \in { <<>>, <<NameB, NameA>> },
        skip \in BOOLEAN, unknown \in BOOLEAN, short \in BOOLEAN }
    \cup { Decoder(t, h, skip, FALSE, FALSE, "identity") :
        t \in DecodeTypes \ {TDup}, h \in Headers, skip \in BOOLEAN }
    \cup { Decoder(t, h, FALSE, FALSE, FALSE, "zeroB") :
        t \in DecodeTypes \ {TDup}, h \in { <<>>, <<NameB, NameA>> } }
    \cup { NewDecoder(TDup) }

\* The input streams of a decoder: with a declared header the stream holds
\* data rows only, otherwise its first row, if any, is the header row.
StreamsOf(d) ==
    IF d.header # <<>> THEN DataStreams
    ELSE { <<>>, <<ReadError>> } \cup { <<Item(h)>> \o ds : h \in HeaderRows, ds \in DataStreams }

\* ------------------------------------------------------------------------
\* The encoder.

\* The hook of SetMapFunc; the model's hooks are those of the decoder.
mapFunc(hook, name, value) == cleanerFunc(hook, name, value)

\* The loop of Encode over the (column, field) pairs of one record, from
\* pair j (0-based) on.  acc holds the row buffer, the calls made and the
\* error that stopped the loop.
RECURSIVE EncodePairs(_, _, _, _, _, _, _)
EncodePairs(t, fs, idx, structval, hook, j, acc) ==
    IF 2 * j >= Len(idx) THEN acc
    ELSE LET field == fs[idx[2 * j + 2] + 1]
             ft    == TypeByIndex(t, field.Index)
             r     == Encode(field.codec, ft, FieldByIndex(structval, field.Index))
             value == mapFunc(hook, field.Name, r.s)
             call  == [column |-> idx[2 * j + 1], name |-> field.Name, raw |-> r.s,
                       value |-> value, alloc |-> FALSE, inner |-> r.inner]
         IN IF r.err # ""
            THEN [acc EXCEPT !.err = r.err]
            ELSE EncodePairs(t, fs, idx, structval, hook, j + 1,
                     [record |-> [acc.record EXCEPT ![idx[2 * j + 1] + 1] = value],
                      calls |-> Append(acc.calls, call), err |-> ""])

\* The header Encode uses: the declared header, or else the names of the
\* descriptors.
EncoderHeader(declared, fs) == IF Len(declared) > 0 THEN declared ELSE HeaderOfFields(fs)

\* ------------------------------------------------------------------------
\* The inputs of the encoder.

\* struct { A uint8 `csv:"A,base=16"`; B *string }
THexOpt == StructOf(<<Tagged(NameA, <<"A", ",", "b", "a", "s", "e", "=", "1", "6">>, Prim("Uint8")),
                      Plain(NameB, PtrTo(Prim("String")))>>)

\* struct { A uppercase; B []byte }
TTextBytes == StructOf(<<Plain(NameA, Uppercase), Plain(NameB, Prim("ByteSlice"))>>)

\* The values of a type that the records of the model hold.
RECURSIVE ValuesOf(_)
RECURSIVE TupleValues(_, _)
ValuesOf(t) ==
    CASE t.kind = "Ptr" -> { <<>> } \cup { <<v>> : v \in ValuesOf(t.elem[1]) }
      [] t.kind = "Struct" -> TupleValues(t.fields, Len(t.fields))
      [] t.kind = "Bool" -> BOOLEAN
      [] t.kind \in IntKinds -> { 0, -1 }
      [] t.kind \in UintKinds -> { 0, 43 }
      [] t.um \/ t.tm -> { <<>>, <<"X">> }
      [] OTHER -> { <<>>, <<"x">> }

\* The values of the first n fields of a struct.
TupleValues(fs, n) ==
    IF n = 0 THEN { <<>> }
    ELSE { Append(p, v) : p \in TupleValues(fs, n - 1), v \in ValuesOf(fs[n].Type) }

StructValues(t) == ValuesOf(t)

EncodeTypes == {TBoolStr, TIntOpt, TDup}

RoundTripTypes == {TBoolStr, TIntOpt, THexOpt, TTextBytes}

\* The row sink an Encoder writes to: failWrite is the number of the call of
\* Write that fails (0: none does), failFlush says whether Flush fails.
Sink(k, f) == [failWrite |-> k, failFlush |-> f]

\* A sink that never fails, like the bytes.Buffer of Marshal.
GoodSink == Sink(0, FALSE)

\* A faulty Write whose error is lost.
WriteIgnoresError(sink, n) == ""

\* The n-th call of Writer.Write on the sink: its error.
Write(sink, n) == IF sink.failWrite = n THEN "write error" ELSE ""

\* A faulty flush whose error is lost.
FlushIgnoresError(sink) == ""

\* Flushing the sink when all records are written: its error.
Flush(sink) == IF sink.failFlush THEN "flush error" ELSE ""

Encoder(t, h, skip, hook) ==
    [type |-> t, header |-> h, skipHeader |-> skip, hook |-> hook, sink |-> GoodSink]

\* The encoder of NewEncoder, for a record type.
NewEncoder(t) == Encoder(t, <<>>, FALSE, "identity")

Encoders ==
    { Encoder(t, h, skip, hook) : t \in EncodeTypes, h \in Headers \cup {<<>>},
                                  skip \in BOOLEAN, hook \in {"identity", "zeroB"} }

\* ------------------------------------------------------------------------
\* The state.

VARIABLES
    mode,         \* what the session does: "decode", "encode" or "roundtrip"
    pc,           \* the position of the session in its driver
    structCache,  \* the descriptor cache: record type -> descriptor list
    structLock,   \* the mutex of the descriptor cache: the thread holding it, 0 when free
    dec,          \* the Decoder: its configuration
    stream,       \* what the row source has yet to return
    source,       \* what the row source holds, from its first row
    nread,        \* the number of calls of Reader.Read made
    readlog,      \* the data rows read so far, each with its processing
    header,       \* the header of the session
    fields,       \* the descriptors of the session
    indices,      \* the binding of the session
    out,          \* the records delivered so far
    errors,       \* Decoder.errors
    result,       \* the error the driver returned ("" is nil)
    dest,         \* the caller's destination slice
    enc,          \* the Encoder: its configuration
    recs,         \* the records Encode is given
    written,      \* the rows written to the row sink
    record,       \* the row buffer of Encode
    enclog,       \* the calls of the hook of Encode, record by record
    input,        \* the argument of the function applied, in the specifications
                  \* of the converters and of the resolver
    output        \* what the function returned

vars == <<mode, pc, structCache, structLock, dec, stream, source, nread, readlog, header, fields, indices,
          out, errors, result, dest, enc, recs, written, record, enclog, input, output>>

decVars == <<dec, stream, nread, readlog, out, errors, dest>>

encVars == <<enc, recs, written, record, enclog>>

funVars == <<input, output>>

\* The destination slice before the call.
Untouched == <<"untouched">>

InitDecode ==
    /\ mode = "decode"
    /\ pc = "start"
    /\ structCache = <<>>
    /\ structLock = 0
    /\ dec \in Decoders
    /\ stream \in StreamsOf(dec)
    /\ source = stream
    /\ nread = 0
    /\ readlog = <<>>
    /\ header = <<>>
    /\ fields = <<>>
    /\ indices = <<>>
    /\ out = <<>>
    /\ errors = <<>>
    /\ result = ""
    /\ dest = Untouched
    /\ enc = NewEncoder(dec.type)
    /\ recs = <<>>
    /\ written = <<>>
    /\ record = <<>>
    /\ enclog = <<>>
    /\ input = <<>>
    /\ output = <<>>

InitEncode ==
    /\ mode = "encode"
    /\ pc = "encode"
    /\ structCache = <<>>
    /\ structLock = 0
    /\ enc \in Encoders
    /\ recs \in SeqsOf(StructValues(enc.type), 0, MaxRows)
    /\ dec = NewDecoder(enc.type)
    /\ stream = <<>>
    /\ source = <<>>
    /\ nread = 0
    /\ readlog = <<>>
    /\ header = <<>>
    /\ fields = <<>>
    /\ indices = <<>>
    /\ out = <<>>
    /\ errors = <<>>
    /\ result = ""
    /\ dest = Untouched
    /\ written = <<>>
    /\ record = <<>>
    /\ enclog = <<>>
    /\ input = <<>>
    /\ output = <<>>

\* Marshal followed by Unmarshal of its output.
InitRoundTrip ==
    /\ mode = "roundtrip"
    /\ pc = "encode"
    /\ structCache = <<>>
    /\ structLock = 0
    /\ enc \in { NewEncoder(t) : t \in RoundTripTypes }
    /\ recs \in SeqsOf(StructValues(enc.type), 0, MaxRows)
    /\ dec = NewDecoder(enc.type)
    /\ stream = <<>>
    /\ source = <<>>
    /\ nread = 0
    /\ readlog = <<>>
    /\ header = <<>>
    /\ fields = <<>>
    /\ indices = <<>>
    /\ out = <<>>
    /\ errors = <<>>
    /\ result = ""
    /\ dest = Untouched
    /\ written = <<>>
    /\ record = <<>>
    /\ enclog = <<>>
    /\ input = <<>>
    /\ output = <<>>

\* ------------------------------------------------------------------------
\* The decode driver.

\* A faulty Decode that stores the slice whatever decodeFunc returned.
SetSliceAlways(old, slice, err) == slice

\* The end of Decode: the slice is stored in the destination if decodeFunc
\* returned no error.
SetSlice(old, slice, err) == IF err = "" THEN slice ELSE old

\* Decode up to the call of mapHeader: the record type is resolved.
DecodeBegin ==
    /\ pc = "start"
    /\ LET r == structFieldsOf(structCache, dec.type)
       IN /\ structCache' = r.cache
          /\ fields' = r.fields
          /\ IF r.err # ""
             THEN /\ result' = r.err
                  /\ pc' = "done"
             ELSE /\ result' = ""
                  /\ pc' = "header"
    /\ UNCHANGED <<mode, source, structLock, header, indices>>
    /\ UNCHANGED <<dec, stream, nread, readlog, out, errors>>
    /\ UNCHANGED encVars
    /\ UNCHANGED funVars
    /\ dest' = IF pc' = "done" /\ mode # "decodefunc"
               THEN SetSlice(dest, out', result') ELSE dest

\* A faulty mapHeader that reads a row although a header was declared.
mapHeaderAlwaysReads(d, st, fs) ==
    LET h == IF Len(d.header) > 0 THEN d.header ELSE IF st = <<>> THEN <<>> ELSE Head(st).row
    IN IF st = <<>>
       THEN [err |-> "EOF", header |-> <<>>, indices |-> <<>>, read |-> 1]
       ELSE IF Head(st).err
       THEN [err |-> "read error", header |-> <<>>, indices |-> <<>>, read |-> 1]
       ELSE IF HasDuplicate(h)
       THEN [err |-> "duplicate header name", header |-> h, indices |-> <<>>, read |-> 1]
       ELSE [err |-> "", header |-> h, indices |-> MatchHeader(h, fs, 0), read |-> 1]

\* Decoder.mapHeader(cr, fields) on the stream given: the error, the header,
\* the binding, and how many rows it read.
mapHeader(d, st, fs) ==
    LET declared == Len(d.header) > 0
        read == IF declared THEN 0 ELSE 1
        h == IF declared THEN d.header ELSE IF st = <<>> THEN <<>> ELSE Head(st).row
    IN IF ~declared /\ st = <<>>
       THEN [err |-> "EOF", header |-> <<>>, indices |-> <<>>, read |-> read]
       ELSE IF ~declared /\ Head(st).err
       THEN [err |-> "read error", header |-> <<>>, indices |-> <<>>, read |-> read]
       ELSE IF HasDuplicate(h)
       THEN [err |-> "duplicate header name", header |-> h, indices |-> <<>>, read |-> read]
       ELSE [err |-> "", header |-> h, indices |-> MatchHeader(h, fs, 0), read |-> read]

\* The header is obtained and bound; end of input here ends Decode with an
\* empty result.
DecodeHeader ==
    /\ pc = "header"
    /\ LET r == mapHeader(dec, stream, fields)
       IN /\ indices' = r.indices
          /\ header' = r.header
          /\ nread' = nread + r.read
          /\ stream' = IF r.read = 1 /\ stream # <<>> THEN Tail(stream) ELSE stream
          /\ IF r.err = "EOF"
             THEN /\ result' = ""
                  /\ pc' = "done"
             ELSE IF r.err # ""
             THEN /\ result' = r.err
                  /\ pc' = "done"
             ELSE /\ result' = ""
                  /\ pc' = "rows"
    /\ UNCHANGED <<mode, source, structLock, structCache, dec, readlog, fields, out, errors>>
    /\ UNCHANGED encVars
    /\ UNCHANGED funVars
    /\ dest' = IF pc' = "done" /\ mode # "decodefunc"
               THEN SetSlice(dest, out', result') ELSE dest

\* A faulty RowOutcome that delivers the rows it records an error for.
RowOutcomeDeliverInvalid(skip, err) ==
    IF err = NoError \/ skip THEN "deliver" ELSE "abort"

\* A faulty RowOutcome that goes on after an error in every mode.
RowOutcomeNeverAbort(skip, err) ==
    IF err = NoError THEN "deliver" ELSE "skip"

\* What decodeFunc does with a record after its fields were decoded.
RowOutcome(skip, err) ==
    IF err = NoError THEN "deliver" ELSE IF skip THEN "skip" ELSE "abort"

\* A faulty append that puts the record in front of the slice.
AppendValueFront(slice, value) == <<value>> \o slice

\* The function Decode passes to decodeFunc: the record is appended to the
\* slice.
AppendValue(slice, value) == Append(slice, value)

\* A faulty closure that drops the error of the callback.
CallFnDropsError(fn, n) == ""

\* The function DecodeFunc passes to decodeFunc, at call n of the callback:
\* the error the callback returns.  The callback fn of the model fails at
\* call fn.failAt, and never if that is 0.
CallFn(fn, n) == IF fn.failAt = n THEN "callback error" ELSE ""

\* A faulty reading of cr.Read() that takes an error for the end of input.
ReadOutcomeErrorEndsInput(st) ==
    IF st = <<>> \/ Head(st).err THEN "EOF" ELSE "record"

\* What cr.Read() returns in the loop of decodeFunc: io.EOF, another error,
\* or a record.
ReadOutcome(st) ==
    IF st = <<>> THEN "EOF" ELSE IF Head(st).err THEN "error" ELSE "record"

\* One turn of the loop of decodeFunc: a row is read and decoded, and the
\* record is handed to the function decodeFunc was given: Decode appends it
\* to its slice, DecodeFunc calls the callback with it (out is then the
\* arguments of the calls).  At the end of input Decode stores the slice in
\* the destination.
DecodeRow ==
    /\ pc = "rows"
    /\ nread' = nread + 1
    /\ IF ReadOutcome(stream) = "EOF"
       THEN /\ result' = ""
            /\ pc' = "done"
            /\ stream' = IF stream = <<>> THEN stream ELSE Tail(stream)
            /\ UNCHANGED <<readlog, out, errors>>
       ELSE IF ReadOutcome(stream) = "error"
       THEN /\ result' = "read error"
            /\ pc' = "done"
            /\ stream' = Tail(stream)
            /\ UNCHANGED <<readlog, out, errors>>
       ELSE LET row == Head(stream).row
                r == DecodeRecord(dec.type, fields, indices, row, dec.hook,
                                  dec.noUnknownFields, dec.noShortFields)
                outcome == RowOutcome(dec.skipInvalidRows, r.err)
                fnerr == IF outcome = "deliver" /\ mode = "decodefunc"
                         THEN CallFn(input, Len(out) + 1) ELSE ""
            IN /\ stream' = Tail(stream)
               /\ readlog' = Append(readlog, [row |-> row, val |-> r.val, calls |-> r.calls,
                                              err |-> r.err, delivered |-> outcome = "deliver"])
               /\ out' = IF outcome # "deliver" THEN out
                         ELSE IF mode = "decodefunc" THEN Append(out, r.val)
                         ELSE AppendValue(out, r.val)
               /\ errors' = IF outcome = "skip" THEN Append(errors, r.err) ELSE errors
               /\ result' = IF outcome = "abort" THEN r.err.kind ELSE fnerr
               /\ pc' = IF outcome = "abort" \/ fnerr # "" THEN "done" ELSE "rows"
    /\ UNCHANGED <<mode, source, structLock, structCache, dec, header, fields, indices>>
    /\ UNCHANGED encVars
    /\ UNCHANGED funVars
    /\ dest' = IF pc' = "done" /\ mode # "decodefunc"
               THEN SetSlice(dest, out', result') ELSE dest

\* ------------------------------------------------------------------------
\* The encode driver.

\* Encode up to the loop over the records: the type is resolved, the header
\* is bound and, unless suppressed, written.
EncodeBegin ==
    /\ pc = "encode"
    /\ LET r == structFieldsOf(structCache, enc.type)
           h == EncoderHeader(enc.header, r.fields)
           b == headerIndices(h, r.fields)
       IN /\ structCache' = r.cache
          /\ IF r.err # ""
             THEN /\ result' = r.err
                  /\ pc' = "encoded"
                  /\ UNCHANGED <<header, fields, indices, written, record, enclog>>
             ELSE IF b.err # ""
             THEN /\ result' = b.err
                  /\ pc' = "encoded"
                  /\ header' = h
                  /\ fields' = r.fields
                  /\ UNCHANGED <<indices, written, record, enclog>>
             ELSE IF ~enc.skipHeader /\ Write(enc.sink, 1) # ""
             THEN /\ result' = Write(enc.sink, 1)
                  /\ pc' = "encoded"
                  /\ header' = h
                  /\ fields' = r.fields
                  /\ indices' = b.indices
                  /\ UNCHANGED <<written, record, enclog>>
             ELSE /\ result' = ""
                  /\ pc' = "records"
                  /\ header' = h
                  /\ fields' = r.fields
                  /\ indices' = b.indices
                  /\ written' = IF enc.skipHeader THEN written ELSE Append(written, h)
                  /\ record' = [i \in 1..Len(h) |-> <<>>]
                  /\ enclog' = enclog
    /\ UNCHANGED <<mode, source, structLock, enc, recs>>
    /\ UNCHANGED decVars
    /\ UNCHANGED funVars

\* One turn of the loop of Encode: the next record is encoded and written.
\* After the last record the sink is flushed.
EncodeRow ==
    /\ pc = "records"
    /\ IF Len(written) - (IF enc.skipHeader THEN 0 ELSE 1) >= Len(recs)
       THEN /\ result' = Flush(enc.sink)
            /\ pc' = "encoded"
            /\ UNCHANGED <<written, record, enclog>>
       ELSE LET i == Len(written) - (IF enc.skipHeader THEN 0 ELSE 1)
                r == EncodePairs(enc.type, fields, indices, recs[i + 1], enc.hook, 0,
                                 [record |-> record, calls |-> <<>>, err |-> ""])
                w == Write(enc.sink, Len(written) + 1)
            IN /\ record' = r.record
               /\ enclog' = Append(enclog, r.calls)
               /\ IF r.err # ""
                  THEN /\ result' = r.err
                       /\ pc' = "encoded"
                       /\ written' = written
                  ELSE IF w # ""
                  THEN /\ result' = w
                       /\ pc' = "encoded"
                       /\ written' = written
                  ELSE /\ result' = ""
                       /\ pc' = "records"
                       /\ written' = Append(written, r.record)
    /\ UNCHANGED <<mode, source, structLock, structCache, header, fields, indices, enc, recs>>
    /\ UNCHANGED decVars
    /\ UNCHANGED funVars

\* Unmarshal is called on what Marshal returned.
Unmarshal ==
    /\ mode = "roundtrip" /\ pc = "encoded" /\ result = ""
    /\ stream' = RowItems(written)
    /\ source' = RowItems(written)
    /\ pc' = "start"
    /\ UNCHANGED <<mode, structLock, structCache, dec, nread, readlog, header, fields, indices,
                   out, errors, result, dest>>
    /\ UNCHANGED encVars
    /\ UNCHANGED funVars

Init == InitDecode \/ InitEncode \/ InitRoundTrip

Next == DecodeBegin \/ DecodeHeader \/ DecodeRow \/ EncodeBegin \/ EncodeRow \/ Unmarshal

Spec == Init /\ [][Next]_vars

\* ------------------------------------------------------------------------
\* Encode to a sink that may fail, of records whose conversion may fail.

\* struct { A *onlyUnmarshaler; B bool }: a present A cannot be encoded.
TOptText == StructOf(<<Plain(NameA, PtrTo(TextType("String", TRUE, FALSE))),
                       Plain(NameB, Prim("Bool"))>>)

Sinks == { Sink(k, f) : k \in 0..(MaxRows + 1), f \in BOOLEAN }

SinkEncoders ==
    { [Encoder(t, h, skip, "identity") EXCEPT !.sink = s] :
        t \in {TBoolStr, TOptText}, h \in { <<>>, <<NameB, NameC>> },
        skip \in BOOLEAN, s \in Sinks }

InitSink ==
    /\ mode = "encode"
    /\ pc = "encode"
    /\ structCache = <<>>
    /\ structLock = 0
    /\ enc \in SinkEncoders
    /\ recs \in SeqsOf(StructValues(enc.type), 0, MaxRows)
    /\ dec = NewDecoder(enc.type)
    /\ stream = <<>>
    /\ source = <<>>
    /\ nread = 0
    /\ readlog = <<>>
    /\ header = <<>>
    /\ fields = <<>>
    /\ indices = <<>>
    /\ out = <<>>
    /\ errors = <<>>
    /\ result = ""
    /\ dest = Untouched
    /\ written = <<>>
    /\ record = <<>>
    /\ enclog = <<>>
    /\ input = <<>>
    /\ output = <<>>

NextSink == EncodeBegin \/ EncodeRow

SpecSink == InitSink /\ [][NextSink]_vars

\* ------------------------------------------------------------------------
\* Decode, and then DecodeFunc of a new decoder with the same settings on
\* the same input.  input is the callback; output keeps what Decode
\* returned.

InitFunc ==
    /\ mode = "decode"
    /\ pc = "start"
    /\ structCache = <<>>
    /\ structLock = 0
    /\ dec \in { Decoder(t, h, skip, FALSE, FALSE, "identity") :
                   t \in {TBoolStr, TIntOpt}, h \in { <<>>, <<NameB, NameA>> },
                   skip \in BOOLEAN }
    /\ stream \in StreamsOf(dec)
    /\ source = stream
    /\ nread = 0
    /\ readlog = <<>>
    /\ header = <<>>
    /\ fields = <<>>
    /\ indices = <<>>
    /\ out = <<>>
    /\ errors = <<>>
    /\ result = ""
    /\ dest = Untouched
    /\ enc = NewEncoder(dec.type)
    /\ recs = <<>>
    /\ written = <<>>
    /\ record = <<>>
    /\ enclog = <<>>
    /\ input \in { [failAt |-> k] : k \in 0..MaxRows }
    /\ output = [err |-> "", v |-> Untouched, errors |-> <<>>]

DecodeFuncAfter ==
    /\ mode = "decode" /\ pc = "done"
    /\ mode' = "decodefunc"
    /\ pc' = "start"
    /\ output' = [err |-> result, v |-> dest, errors |-> errors]
    /\ stream' = source
    /\ nread' = 0
    /\ readlog' = <<>>
    /\ out' = <<>>
    /\ errors' = <<>>
    /\ result' = ""
    /\ UNCHANGED <<source, structLock, structCache, dec, header, fields, indices, dest, input>>
    /\ UNCHANGED encVars

NextFunc == DecodeBegin \/ DecodeHeader \/ DecodeRow \/ DecodeFuncAfter

SpecFunc == InitFunc /\ [][NextFunc]_vars

\* ------------------------------------------------------------------------
\* The converters applied to one field.

\* type Celsius int and type Stamp struct{...}, with UnmarshalText and
\* MarshalText; types with one of the two methods only.
TextInt == TextType("Int", TRUE, TRUE)

TextStruct == TextType("Struct", TRUE, TRUE)

OnlyUnmarshaler == TextType("String", TRUE, FALSE)

OnlyMarshaler == TextType("String", FALSE, TRUE)

ValueTypes ==
    { Prim("Bool"), Prim("Int8"), Prim("Int16"), Prim("Int"), Prim("Uint8"), Prim("Uint"),
      Prim("String"), Prim("ByteSlice"), Uppercase, TextInt, TextStruct,
      OnlyUnmarshaler, OnlyMarshaler, Prim("Interface"), Prim("Struct") }

FieldTypes ==
    ValueTypes \cup { PtrTo(t) : t \in ValueTypes }
               \cup { PtrTo(PtrTo(Prim("Int"))), PtrTo(PtrTo(Uppercase)) }

FieldTexts ==
    { <<>>, <<"0">>, <<"1">>, <<"-", "1">>, <<"2", "b">>, <<"b">>, <<"3", "0", "0">>,
      <<"t", "r", "u", "e">> }

FieldInputs ==
    UNION { { [type |-> t, text |-> s, base |-> b, value |-> v] :
                s \in FieldTexts, b \in {10, 16}, v \in ValuesOf(t) } : t \in FieldTypes }

NoDecode == [err |-> "", v |-> <<>>, alloc |-> FALSE, inner |-> FALSE]

NoEncode == [err |-> "", s |-> <<>>, inner |-> FALSE]

InitSession ==
    /\ structCache = <<>>
    /\ structLock = 0
    /\ dec = NewDecoder(TBoolStr)
    /\ stream = <<>>
    /\ source = <<>>
    /\ nread = 0
    /\ readlog = <<>>
    /\ header = <<>>
    /\ fields = <<>>
    /\ indices = <<>>
    /\ out = <<>>
    /\ errors = <<>>
    /\ result = ""
    /\ dest = Untouched
    /\ enc = NewEncoder(TBoolStr)
    /\ recs = <<>>
    /\ written = <<>>
    /\ record = <<>>
    /\ enclog = <<>>

sessionVars == <<structCache, dec, stream, nread, readlog, header, fields, indices,
                 out, errors, result, dest, enc, recs, written, record, enclog>>

InitCodec ==
    /\ mode = "codec"
    /\ pc = "select"
    /\ input \in FieldInputs
    /\ output = [sel |-> [err |-> "", codec |-> NoCodec],
                 dec |-> NoDecode, decf |-> NoDecode, enc |-> NoEncode]
    /\ InitSession

\* The converter of the field type is selected, as appendStructFields does.
SelectConverter ==
    /\ mode = "codec" /\ pc = "select"
    /\ output' = [output EXCEPT
                     !.sel = newValueConverter(input.type, <<>>, input.base, -1, "f")]
    /\ pc' = IF output'.sel.err = "" THEN "decode" ELSE "done"
    /\ UNCHANGED <<mode, source, structLock, input>>
    /\ UNCHANGED sessionVars

\* The text is decoded into a zero field, by the converter selected and by
\* decodeField.
DecodeText ==
    /\ mode = "codec" /\ pc = "decode"
    /\ output' = [output EXCEPT
                     !.dec = Decode(output.sel.codec, input.type, Zero(input.type), input.text),
                     !.decf = decodeField(input.type, Zero(input.type),
                                          kindOf(input.type), input.text)]
    /\ pc' = "encode"
    /\ UNCHANGED <<mode, source, structLock, input>>
    /\ UNCHANGED sessionVars

\* The value is encoded by the converter selected.
EncodeValue ==
    /\ mode = "codec" /\ pc = "encode"
    /\ output' = [output EXCEPT
                     !.enc = Encode(output.sel.codec, input.type, input.value)]
    /\ pc' = "done"
    /\ UNCHANGED <<mode, source, structLock, input>>
    /\ UNCHANGED sessionVars

NextCodec == SelectConverter \/ DecodeText \/ EncodeValue

SpecCodec == InitCodec /\ [][NextCodec]_vars

\* ------------------------------------------------------------------------
\* The resolver applied to one record type.

\* The largest number of calls of structFieldsOf for a type.
MaxCalls == 2

\* struct { A int; B string }
InnerAB == StructOf(<<Plain(NameA, Prim("Int")), Plain(NameB, Prim("String"))>>)

\* struct { C int }
InnerC == StructOf(<<Plain(NameC, Prim("Int"))>>)

\* struct { InnerC; A int }
InnerNest == StructOf(<<Embedded(<<"I">>, InnerC), Plain(NameA, Prim("Int"))>>)

InlineTag == <<",", "i", "n", "l", "i", "n", "e">>

FieldDecls ==
    { Plain(NameA, Prim("Int")), Plain(NameB, PtrTo(Prim("Int"))), Plain(NameB, Uppercase),
      Plain(NameA, Prim("Interface")), Plain(NameB, PtrTo(Prim("Interface"))),
      Unexported(<<"a">>, Prim("Interface")),
      Tagged(NameA, NameB, Prim("Int")), Tagged(NameB, NameA, Prim("String")),
      Tagged(NameA, <<"-">>, Prim("Interface")), Tagged(NameB, <<"-">>, Prim("Int")),
      Tagged(NameA, <<"C", ",", "b", "a", "s", "e", "=", "1", "6">>, Prim("Uint8")),
      Embedded(<<"I">>, InnerAB), Embedded(<<"I">>, InnerC), Embedded(<<"I">>, InnerNest),
      Tagged(NameB, InlineTag, InnerAB), Tagged(NameA, InlineTag, InnerC),
      Plain(NameA, InnerC), Plain(NameB, TextStruct), Embedded(<<"S">>, TextStruct) }

ResolveTypes == { StructOf(fs) : fs \in SeqsOf(FieldDecls, 0, MaxFields) }

InitResolve ==
    /\ mode = "resolve"
    /\ pc = "resolve"
    /\ input \in ResolveTypes
    /\ output = <<>>
    /\ InitSession

\* headerOf is called for the type: structFieldsOf, and then the names of
\* the descriptors it returned.
Resolve ==
    /\ mode = "resolve" /\ pc = "resolve"
    /\ Len(output) < MaxCalls
    /\ LET r == structFieldsOf(structCache, input)
       IN /\ structCache' = r.cache
          /\ output' = Append(output, [err |-> r.err, fields |-> r.fields,
                                       hit |-> input \in DOMAIN structCache,
                                       header |-> IF r.err = "" THEN HeaderOfFields(r.fields)
                                                  ELSE <<>>])
    /\ UNCHANGED <<mode, source, structLock, pc, input>>
    /\ UNCHANGED <<dec, stream, nread, readlog, header, fields, indices,
                   out, errors, result, dest, enc, recs, written, record, enclog>>

NextResolve == Resolve

SpecResolve == InitResolve /\ [][NextResolve]_vars

\* ------------------------------------------------------------------------
\* Threads calling structFieldsOf, each once, for a type of its own choice.
\* A thread is at "call" before structLock.Lock(), at "lookup" when it holds
\* the lock, at "populate" after a cache miss, at "return" with its result
\* set and the deferred Unlock still to run, and at "done" after it.

MaxThreads == 2

\* A lock that lets everyone in.
CanLockAlways(lock) == TRUE

\* sync.Mutex.Lock returns when the mutex is free.
CanLock(lock) == lock = 0

InitLock ==
    /\ mode = "threads"
    /\ pc = [th \in 1..MaxThreads |-> "call"]
    /\ input \in [1..MaxThreads ->
                    { StructOf(<<f>>) : f \in { Plain(NameA, Prim("Int")),
                                                 Plain(NameB, Uppercase),
                                                 Plain(NameB, PtrTo(Prim("Int"))),
                                                 Plain(NameA, Prim("Interface")),
                                                 Embedded(<<"I">>, InnerNest) } }]
    /\ output = [th \in 1..MaxThreads |-> [err |-> "", fields |-> <<>>, hit |-> FALSE]]
    /\ InitSession

Lock(th) ==
    /\ mode = "threads" /\ pc[th] = "call"
    /\ CanLock(structLock)
    /\ structLock' = th
    /\ pc' = [pc EXCEPT ![th] = "lookup"]
    /\ UNCHANGED <<mode, source, input, output>>
    /\ UNCHANGED sessionVars

Lookup(th) ==
    /\ mode = "threads" /\ pc[th] = "lookup"
    /\ IF input[th] \in DOMAIN structCache
       THEN /\ output' = [output EXCEPT ![th] = [err |-> "", fields |-> structCache[input[th]],
                                                 hit |-> TRUE]]
            /\ pc' = [pc EXCEPT ![th] = "return"]
       ELSE /\ pc' = [pc EXCEPT ![th] = "populate"]
            /\ UNCHANGED output
    /\ UNCHANGED <<mode, source, structLock, input>>
    /\ UNCHANGED sessionVars

Populate(th) ==
    /\ mode = "threads" /\ pc[th] = "populate"
    /\ LET Store(r) ==
               /\ structCache' = IF r.err = "" THEN (input[th] :> r.fields) @@ structCache
                                 ELSE structCache
               /\ output' = [output EXCEPT ![th] = [err |-> r.err, fields |-> r.fields,
                                                    hit |-> FALSE]]
       IN Store(ResolveFields(input[th]))
    /\ pc' = [pc EXCEPT ![th] = "return"]
    /\ UNCHANGED <<mode, source, structLock, input>>
    /\ UNCHANGED <<dec, stream, nread, readlog, header, fields, indices,
                   out, errors, result, dest, enc, recs, written, record, enclog>>

\* A faulty return that keeps the lock when the resolution failed.
UnlockExceptOnError(th) ==
    /\ mode = "threads" /\ pc[th] = "return"
    /\ structLock' = IF output[th].err # "" THEN structLock ELSE 0
    /\ pc' = [pc EXCEPT ![th] = "done"]
    /\ UNCHANGED <<mode, source, input, output>>
    /\ UNCHANGED sessionVars

\* The deferred structLock.Unlock() runs as structFieldsOf returns.
Unlock(th) ==
    /\ mode = "threads" /\ pc[th] = "return"
    /\ structLock' = 0
    /\ pc' = [pc EXCEPT ![th] = "done"]
    /\ UNCHANGED <<mode, source, input, output>>
    /\ UNCHANGED sessionVars

NextLock == \E th \in 1..MaxThreads : Lock(th) \/ Lookup(th) \/ Populate(th) \/ Unlock(th)

SpecLock == InitLock /\ [][NextLock]_vars

\* The steps of one caller.
ThreadStep(th) == Lock(th) \/ Lookup(th) \/ Populate(th) \/ Unlock(th)

\* Every goroutine that can take a step eventually takes one.
SpecLockFair ==
    InitLock /\ [][NextLock]_vars /\ \A th \in 1..MaxThreads : WF_vars(ThreadStep(th))

\* ------------------------------------------------------------------------
\* The arguments of Decode, DecodeFunc, Encode and Header.  An argument is
\* an interface{}: untyped says it is the nil interface; otherwise it has a
\* type, and isnil says whether a value of a kind that can be nil is nil.

SliceOf(t) == [kind |-> "Slice", um |-> FALSE, tm |-> FALSE, elem |-> <<t>>, fields |-> <<>>]

\* func(ins...) (outs...)
FuncOf(ins, outs) == [kind |-> "Func", um |-> FALSE, tm |-> FALSE, elem |-> <<>>,
                      fields |-> <<>>, ins |-> ins, outs |-> outs]

Arg(t, isnil) == [untyped |-> FALSE, type |-> t, isnil |-> isnil]

ArgValues ==
    { [untyped |-> TRUE, type |-> Prim("Interface"), isnil |-> TRUE],
      Arg(Prim("Int"), FALSE), Arg(Prim("String"), FALSE),
      Arg(PtrTo(Prim("Int")), FALSE), Arg(PtrTo(Prim("Int")), TRUE),
      Arg(PtrTo(SliceOf(Prim("Int"))), FALSE),
      Arg(FuncOf(<<>>, <<Prim("error")>>), FALSE),
      Arg(FuncOf(<<PtrTo(Prim("Int"))>>, <<Prim("error")>>), FALSE) }
    \cup UNION { { Arg(t, FALSE),
                   Arg(PtrTo(t), FALSE), Arg(PtrTo(t), TRUE),
                   Arg(SliceOf(t), FALSE), Arg(SliceOf(t), TRUE),
                   Arg(PtrTo(SliceOf(t)), FALSE), Arg(PtrTo(SliceOf(t)), TRUE),
                   Arg(PtrTo(SliceOf(PtrTo(t))), FALSE),
                   Arg(FuncOf(<<PtrTo(t)>>, <<Prim("error")>>), FALSE),
                   Arg(FuncOf(<<PtrTo(t)>>, <<Prim("error")>>), TRUE),
                   Arg(FuncOf(<<t>>, <<Prim("error")>>), FALSE),
                   Arg(FuncOf(<<PtrTo(t)>>, <<>>), FALSE),
                   Arg(FuncOf(<<PtrTo(t)>>, <<Prim("Int")>>), FALSE),
                   Arg(FuncOf(<<PtrTo(t), PtrTo(t)>>, <<Prim("error")>>), FALSE) }
                 : t \in {TBoolStr, TDup} }

\* valueOf(i): the error, or a panic of reflect.Value.IsNil on a value of a
\* kind that cannot be nil.
valueOf(a) ==
    IF a.untyped THEN [panic |-> FALSE, err |-> "invalid argument"]
    ELSE IF a.type.kind \notin {"Ptr", "Slice", "Func", "Map", "Chan", "Interface"}
    THEN [panic |-> TRUE, err |-> ""]
    ELSE IF a.isnil THEN [panic |-> FALSE, err |-> "invalid argument"]
    ELSE [panic |-> FALSE, err |-> ""]

\* innerTypeOf(t, kinds...): t is <<>> for the nil reflect.Type, on which
\* t.Kind() panics; the result is <<>> for nil.
RECURSIVE innerTypeOf(_, _)
innerTypeOf(t, kinds) ==
    IF t = <<>> THEN [panic |-> TRUE, t |-> <<>>]
    ELSE IF t[1].kind # Head(kinds) THEN [panic |-> FALSE, t |-> <<>>]
    ELSE IF Len(kinds) = 1 THEN [panic |-> FALSE, t |-> t]
    ELSE innerTypeOf(t[1].elem, Tail(kinds))

\* What a call came to: a panic, an error returned before the driver ran,
\* or the driver entered (it reads the row source or writes the row sink).
Panicked(op) == [op |-> op, panic |-> TRUE, err |-> "", io |-> FALSE, header |-> <<>>]

Refused(op, err) == [op |-> op, panic |-> FALSE, err |-> err, io |-> FALSE, header |-> <<>>]

Entered(op) == [op |-> op, panic |-> FALSE, err |-> "", io |-> TRUE, header |-> <<>>]

InitArgs ==
    /\ mode = "args"
    /\ pc = "call"
    /\ input \in ArgValues
    /\ output = Refused("", "")
    /\ InitSession

\* Decoder.Decode(v) up to the call of decodeFunc.
DecoderDecode ==
    /\ mode = "args" /\ pc = "call"
    /\ LET vv == valueOf(input)
           After(it) == IF it.t = <<>> THEN Refused("Decode", "invalid type")
                        ELSE Entered("Decode")
       IN output' = IF vv.panic THEN Panicked("Decode")
                    ELSE IF vv.err # "" THEN Refused("Decode", vv.err)
                    ELSE After(innerTypeOf(<<input.type>>, <<"Ptr", "Slice", "Struct">>))
    /\ pc' = "done"
    /\ UNCHANGED <<mode, source, structLock, input>>
    /\ UNCHANGED sessionVars

\* Decoder.DecodeFunc(fn) up to the call of decodeFunc.
DecoderDecodeFunc ==
    /\ mode = "args" /\ pc = "call"
    /\ LET fv == valueOf(input)
           ft == input.type
           After(it) == IF it.t = <<>> THEN Refused("DecodeFunc", "invalid type")
                        ELSE Entered("DecodeFunc")
       IN output' = IF fv.panic THEN Panicked("DecodeFunc")
                    ELSE IF fv.err # "" THEN Refused("DecodeFunc", fv.err)
                    ELSE IF ft.kind # "Func" THEN Refused("DecodeFunc", "invalid type")
                    ELSE IF Len(ft.ins) # 1 \/ Len(ft.outs) # 1
                    THEN Refused("DecodeFunc", "invalid type")
                    ELSE IF ft.outs[1] # Prim("error")
                    THEN Refused("DecodeFunc", "invalid type")
                    ELSE After(innerTypeOf(<<ft.ins[1]>>, <<"Ptr", "Struct">>))
    /\ pc' = "done"
    /\ UNCHANGED <<mode, source, structLock, input>>
    /\ UNCHANGED sessionVars

\* Encoder.Encode(v) up to the resolution of the record type.
EncoderEncode ==
    /\ mode = "args" /\ pc = "call"
    /\ LET vv == valueOf(input)
           After(it) == IF it.t = <<>> THEN Refused("Encode", "invalid argument")
                        ELSE Entered("Encode")
       IN output' = IF vv.panic THEN Panicked("Encode")
                    ELSE IF vv.err # "" THEN Refused("Encode", vv.err)
                    ELSE After(innerTypeOf(<<input.type>>, <<"Ptr", "Slice", "Struct">>))
    /\ pc' = "done"
    /\ UNCHANGED <<mode, source, structLock, input>>
    /\ UNCHANGED sessionVars

\* Header(v): reflect.TypeOf of the nil interface is the nil Type, and
\* headerOf of the nil Type panics in appendStructFields (t.NumField()).
Header ==
    /\ mode = "args" /\ pc = "call"
    /\ LET After(it) ==
               IF it.panic \/ it.t = <<>>
               THEN /\ output' = Panicked("Header")
                    /\ UNCHANGED structCache
               ELSE LET Got(r) ==
                            /\ structCache' = r.cache
                            /\ output' = [op |-> "Header", panic |-> FALSE, err |-> r.err,
                                          io |-> FALSE,
                                          header |-> IF r.err = "" THEN HeaderOfFields(r.fields)
                                                     ELSE <<>>]
                    IN Got(structFieldsOf(structCache, it.t[1]))
       IN After(innerTypeOf(IF input.untyped THEN <<>> ELSE <<input.type>>,
                            <<"Ptr", "Slice", "Struct">>))
    /\ pc' = "done"
    /\ UNCHANGED <<mode, source, structLock, input>>
    /\ UNCHANGED <<dec, stream, nread, readlog, header, fields, indices,
                   out, errors, result, dest, enc, recs, written, record, enclog>>

NextArgs == DecoderDecode \/ DecoderDecodeFunc \/ EncoderEncode \/ Header

SpecArgs == InitArgs /\ [][NextArgs]_vars

\* ------------------------------------------------------------------------
\* Properties of the sessions.

Range(seq) == { seq[i] : i \in 1..Len(seq) }

\* The header names a column twice.
RepeatsName(h) == Cardinality(Range(h)) < Len(h)

\* The number of rows mapHeader read.
HeaderReads == IF Len(dec.header) > 0 THEN 0 ELSE 1

\* The errors a data row can raise.
RowErrors == {"ErrFieldCount", "syntax", "range", "cannot decode field"}

\* C2: binding a header that names a column twice fails, in the decoder and
\* in the encoder alike, before any data row is read or written.
C2_DuplicateHeaderFails ==
    RepeatsName(header) =>
        /\ pc \in {"done", "encoded"}
        /\ result = "duplicate header name"
        /\ indices = <<>>
        /\ readlog = <<>> /\ out = <<>> /\ dest = Untouched
        /\ nread = (IF mode = "decode" THEN HeaderReads ELSE 0)
        /\ written = <<>>

C2_Witness ==
    /\ mode = "decode" /\ pc = "done" /\ dec.header = <<>>
    /\ header = <<NameA, NameA>> /\ stream # <<>>
    /\ result = "duplicate header name"

C2_WitnessEncode ==
    /\ mode = "encode" /\ pc = "encoded" /\ header = <<NameA, NameA>> /\ recs # <<>>
    /\ result = "duplicate header name"

\* The header was bound to the descriptors without error.
Bound == header # <<>> /\ ~RepeatsName(header) /\ pc \in {"rows", "done", "records", "encoded"}

NumPairs == Len(indices) \div 2

PairColumn(k) == indices[2 * k - 1]

PairField(k) == indices[2 * k]

FieldNames == { fields[j].Name : j \in 1..Len(fields) }

\* C3: for a header without repeated names the binding holds exactly one
\* pair for every column named like a descriptor and none for any other
\* column, in ascending column order, no column and no descriptor twice; a
\* decoded record holds the zero value in every field whose name the header
\* lacks.
C3_BindingExact ==
    Bound =>
        /\ Len(indices) = 2 * NumPairs
        /\ \A i \in 1..Len(header) :
              Cardinality({ k \in 1..NumPairs : PairColumn(k) = i - 1 })
                  = (IF header[i] \in FieldNames THEN 1 ELSE 0)
        /\ \A k \in 1..NumPairs :
              /\ PairColumn(k) \in 0..(Len(header) - 1)
              /\ PairField(k) \in 0..(Len(fields) - 1)
              /\ fields[PairField(k) + 1].Name = header[PairColumn(k) + 1]
        /\ \A k, l \in 1..NumPairs :
              k < l => PairColumn(k) < PairColumn(l) /\ PairField(k) # PairField(l)
        /\ \A r \in 1..Len(out) : \A j \in 1..Len(fields) :
              fields[j].Name \notin Range(header) =>
                  FieldByIndex(out[r], fields[j].Index)
                      = Zero(TypeByIndex(dec.type, fields[j].Index))

\* Columns C and A are bound to struct { A bool; B string }: the first column
\* is ignored although it holds text, and B keeps its zero value.
C3_Witness ==
    /\ mode = "decode" /\ pc = "done" /\ Bound
    /\ header = <<NameC, NameA>> /\ dec.type = TBoolStr
    /\ indices = <<1, 0>>
    /\ Len(readlog) = 1 /\ readlog[1].row = << <<"x">>, <<"1">> >>
    /\ out = << <<TRUE, <<>> >> >>

Failed(i) == readlog[i].err # NoError

IsGood(e) == e.err = NoError

IsBad(e) == e.err # NoError

\* The values of the rows read that raised no error, in order.
GoodValues ==
    LET good == SelectSeq(readlog, IsGood) IN [i \in 1..Len(good) |-> good[i].val]

\* The errors of the rows read that raised one, in order.
BadErrors ==
    LET bad == SelectSeq(readlog, IsBad) IN [i \in 1..Len(bad) |-> bad[i].err]

\* C4: with SkipInvalidRows a row that fails is not delivered, its error is
\* appended to the error list and the next row is decoded; Decode returns
\* nil at the end of the input, and its result holds exactly the rows that
\* were converted without error, in the order of the input.
C4_SkipInvalidRows ==
    (mode = "decode" /\ dec.skipInvalidRows) =>
        /\ out = GoodValues
        /\ errors = BadErrors
        /\ result \notin RowErrors
        /\ (readlog # <<>> /\ Failed(Len(readlog)) /\ result = "") =>
              \/ pc = "rows"
              \/ pc = "done" /\ stream = <<>>
        /\ (pc = "done" /\ result = "") => dest = GoodValues

\* The input of TestDecodeSkipInvalidRows: the first row fails to convert,
\* the second row is decoded.
C4_Witness ==
    /\ mode = "decode" /\ dec.skipInvalidRows /\ dec.type = TBoolStr
    /\ pc = "done" /\ result = ""
    /\ Len(readlog) = 2
    /\ readlog[1].row = << <<"x">>, <<"x">> >> /\ readlog[1].err.kind = "syntax"
    /\ readlog[2].row = << <<"1">>, <<"x">> >>
    /\ dest = << <<TRUE, <<"x">> >> >>
    /\ Len(errors) = 1

\* C5: without SkipInvalidRows the first row error ends the decode: it is
\* returned, no later row is read and the error list stays empty.
C5_FirstErrorAborts ==
    (mode = "decode" /\ ~dec.skipInvalidRows) =>
        /\ errors = <<>>
        /\ \A i \in 1..Len(readlog) :
              Failed(i) =>
                  /\ i = Len(readlog)
                  /\ pc = "done"
                  /\ result = readlog[i].err.kind
                  /\ nread = HeaderReads + i
                  /\ dest = Untouched

C5_Witness ==
    /\ mode = "decode" /\ ~dec.skipInvalidRows
    /\ pc = "done" /\ result = "syntax"
    /\ Len(readlog) = 1 /\ Failed(1) /\ stream # <<>>

\* C6: with DisallowUnknownFields a row with more fields than there are
\* descriptors raises ErrFieldCount at its first field and none of its
\* fields is converted; the rule rejects no row with at most that many
\* fields.
C6_DisallowUnknownFields ==
    (mode = "decode" /\ dec.noUnknownFields) =>
        \A i \in 1..Len(readlog) :
            /\ Len(readlog[i].row) > Len(fields) =>
                  /\ readlog[i].err = [kind |-> "ErrFieldCount", field |-> 0]
                  /\ readlog[i].calls = <<>>
                  /\ ~readlog[i].delivered
            /\ (/\ Len(readlog[i].row) <= Len(fields)
                /\ ~(dec.noShortFields /\ Len(readlog[i].row) < Len(fields))) =>
                  readlog[i].err.kind # "ErrFieldCount"

\* A row of two fields for a record type of one descriptor, under a header
\* of two columns.
C6_Witness ==
    /\ mode = "decode" /\ dec.noUnknownFields /\ dec.type = TOne
    /\ header = <<NameB, NameA>>
    /\ Len(readlog) = 1 /\ Len(readlog[1].row) = 2
    /\ readlog[1].err.kind = "ErrFieldCount"
    /\ pc = "done"

\* The value the hook returns for a field, as the hooks are documented.
Cleaned(name, raw) ==
    IF dec.hook = "zeroB" /\ name = NameB /\ raw = <<>> THEN <<"0">> ELSE raw

\* C7: a row with fewer fields than there are descriptors raises
\* ErrFieldCount when short fields are disallowed; otherwise it is decoded,
\* and a bound column past the end of the row is the empty string, which is
\* cleaned by the hook and converted like any other value.
C7_ShortRows ==
    mode = "decode" =>
        \A i \in 1..Len(readlog) :
            LET e == readlog[i]
                short == Len(e.row) < Len(fields)
            IN /\ (short /\ dec.noShortFields) =>
                      /\ e.err = [kind |-> "ErrFieldCount", field |-> 0]
                      /\ e.calls = <<>>
                      /\ ~e.delivered
               /\ (short /\ ~dec.noShortFields) =>
                      /\ e.err.kind # "ErrFieldCount"
                      /\ Len(e.calls) = (IF e.err = NoError THEN NumPairs ELSE Len(e.calls))
                      /\ Len(e.calls) <= NumPairs
                      /\ \A k \in 1..Len(e.calls) :
                            /\ e.calls[k].column = PairColumn(k)
                            /\ e.calls[k].name = fields[PairField(k) + 1].Name
                            /\ e.calls[k].raw = (IF PairColumn(k) < Len(e.row)
                                                 THEN e.row[PairColumn(k) + 1] ELSE <<>>)
                            /\ e.calls[k].value = Cleaned(e.calls[k].name, e.calls[k].raw)
                      /\ (/\ e.err = NoError /\ dec.type = TIntOpt
                          /\ header = <<NameA, NameB>> /\ Len(e.row) = 1) =>
                            e.val[2] = (IF dec.hook = "zeroB" THEN <<0>> ELSE <<>>)
                      /\ (e.err # NoError /\ e.calls # <<>>) =>
                            e.err.field = (IF PairColumn(Len(e.calls)) >= Len(e.row)
                                           THEN Len(e.row) - 1
                                           ELSE PairColumn(Len(e.calls)))

\* The short row of TestDecodeShortFields, with the hook of TestCleanerFunc:
\* the missing field of column B is cleaned to "0" and converted.
C7_Witness ==
    /\ mode = "decode" /\ ~dec.noShortFields /\ dec.hook = "zeroB" /\ dec.type = TIntOpt
    /\ header = <<NameA, NameB>>
    /\ Len(readlog) = 1 /\ readlog[1].row = << <<"1">> >>
    /\ readlog[1].delivered
    /\ Len(readlog[1].calls) = 2 /\ readlog[1].calls[2].raw = <<>>
    /\ out = << <<1, <<0>> >> >>

C7_WitnessDisallowed ==
    /\ mode = "decode" /\ dec.noShortFields /\ dec.type = TBoolStr
    /\ Len(readlog) = 1 /\ readlog[1].row = << <<"1">> >>
    /\ readlog[1].err.kind = "ErrFieldCount"

\* C9: Unmarshal of what Marshal returned yields the records given to
\* Marshal.
C9_RoundTrip ==
    /\ (mode = "roundtrip" /\ pc = "encoded") => result = ""
    /\ (mode = "roundtrip" /\ pc = "done") => result = "" /\ dest = recs

\* ------------------------------------------------------------------------
\* Properties of the resolver.

\* The column name a tag gives: its text up to the first comma.
RECURSIVE TagName(_)
TagName(tag) ==
    IF tag = <<>> \/ Head(tag) = "," THEN <<>> ELSE <<Head(tag)>> \o TagName(Tail(tag))

ColumnName(f) == IF f.HasTag /\ TagName(f.Tag) # <<>> THEN TagName(f.Tag) ELSE f.Name

\* A struct field whose fields stand in for it: embedded, or tagged inline.
Flattened(f) ==
    /\ f.Type.kind = "Struct"
    /\ f.Anonymous \/ (f.HasTag /\ \E n \in 1..Len(f.Tag) :
                          SubSeq(f.Tag, n, Len(f.Tag)) = InlineTag
                          \/ HasPrefix(SubSeq(f.Tag, n, Len(f.Tag)), InlineTag))

\* The included fields of a record type, embedded and inlined structs
\* counted by their fields: the exported fields not named "-".
RECURSIVE IncludedFields(_)
RECURSIVE IncludedFrom(_, _)
IncludedFields(t) == IncludedFrom(t, 1)

IncludedFrom(t, n) ==
    IF n > Len(t.fields) THEN <<>>
    ELSE LET f == t.fields[n]
         IN (IF ~f.Exported THEN <<>>
             ELSE IF Flattened(f) THEN IncludedFields(f.Type)
             ELSE IF ColumnName(f) = <<"-">> THEN <<>>
             ELSE << [name |-> ColumnName(f), type |-> f.Type] >>)
            \o IncludedFrom(t, n + 1)

ConvertibleKinds == IntKinds \cup UintKinds \cup
    {"Bool", "String", "ByteSlice", "Float32", "Float64", "Complex64", "Complex128"}

\* A type for which the documentation promises a converter: a supported
\* primitive, a type with a text capability, or a pointer to one of these.
HasConverter(t) ==
    \/ t.um \/ t.tm
    \/ Deref(t).um \/ Deref(t).tm
    \/ Deref(t).kind \in ConvertibleKinds

NamesCollide(inc) == \E i, j \in 1..Len(inc) : i < j /\ inc[i].name = inc[j].name

Unconvertible(inc) == \E i \in 1..Len(inc) : ~HasConverter(inc[i].type)

\* C1: resolving a record type fails, without a descriptor list, whenever
\* two included fields have the same column name or an included field has
\* no converter; the names of a descriptor list returned are distinct.
C1_ResolutionRejects ==
    mode = "resolve" =>
        \A c \in 1..Len(output) :
            /\ (NamesCollide(IncludedFields(input)) \/ Unconvertible(IncludedFields(input))) =>
                  /\ output[c].err # ""
                  /\ output[c].fields = <<>>
                  /\ input \notin DOMAIN structCache
            /\ output[c].err = "" =>
                  \A i, j \in 1..Len(output[c].fields) :
                      i < j => output[c].fields[i].Name # output[c].fields[j].Name

\* An embedded struct { A int; B string } next to a field A: the names
\* collide across the embedding.
C1_Witness ==
    /\ mode = "resolve"
    /\ input = StructOf(<<Embedded(<<"I">>, InnerAB), Plain(NameA, Prim("Int"))>>)
    /\ Len(output) = 1
    /\ output[1].err = "duplicate field name"

C1_WitnessUnconvertible ==
    /\ mode = "resolve"
    /\ input = StructOf(<<Plain(NameB, Uppercase), Plain(NameA, Prim("Interface"))>>)
    /\ Len(output) = 1
    /\ output[1].err = "cannot decode field"

\* ------------------------------------------------------------------------
\* Properties of the converters.

\* The value below all the pointers of a value whose pointers are not nil.
RECURSIVE Innermost(_, _)
Innermost(t, v) == IF t.kind = "Ptr" THEN Innermost(t.elem[1], v[1]) ELSE v

\* No pointer of the value is nil.
RECURSIVE Present(_, _)
Present(t, v) == t.kind = "Ptr" => (v # <<>> /\ Present(t.elem[1], v[1]))

Selected == mode = "codec" /\ pc # "select" /\ output.sel.err = ""

Optional == input.type.kind = "Ptr"

\* C8: an optional field decodes the empty string to nil, without
\* allocating and without a call of the inner converter; any other text
\* allocates and is given to the inner converter, so that "0" is a present
\* zero; nil encodes to the empty string and a present value to the text of
\* the inner converter.
C8_OptionalFields ==
    (Selected /\ Optional /\ pc = "done") =>
        /\ input.text = <<>> =>
              /\ output.dec = [err |-> "", v |-> <<>>, alloc |-> FALSE, inner |-> FALSE]
              /\ output.decf = [err |-> "", v |-> <<>>, alloc |-> FALSE, inner |-> FALSE]
        /\ input.text # <<>> =>
              /\ output.dec.alloc /\ output.dec.inner
              /\ output.decf.alloc /\ output.decf.inner
              /\ Present(input.type, output.dec.v)
              /\ Present(input.type, output.decf.v)
        /\ (input.text = <<"0">> /\ Deref(input.type) = Prim("Int")) =>
              /\ output.dec.err = "" /\ Innermost(input.type, output.dec.v) = 0
              /\ output.decf.err = "" /\ Innermost(input.type, output.decf.v) = 0
              /\ output.dec.v # Zero(input.type)
        /\ input.value = <<>> =>
              output.enc = [err |-> "", s |-> <<>>, inner |-> FALSE]
        /\ Present(input.type, input.value) =>
              /\ output.enc.inner
              /\ output.enc.s = CodecEncode([output.sel.codec EXCEPT !.ptr = FALSE],
                                            Deref(input.type),
                                            Innermost(input.type, input.value)).s

\* The text "0" decoded into a *int, and a pointer to 0 encoded.
C8_Witness ==
    /\ Selected /\ pc = "done"
    /\ input.type = PtrTo(Prim("Int")) /\ input.text = <<"0">> /\ input.value = <<0>>
    /\ output.dec.v = <<0>> /\ output.decf.v = <<0>>
    /\ output.enc.s = <<"0">>

C8_WitnessEmpty ==
    /\ Selected /\ pc = "done"
    /\ input.type = PtrTo(Prim("Int")) /\ input.text = <<>> /\ input.value = <<>>
    /\ output.dec.v = <<>> /\ output.enc.s = <<>>

TextCapable(t) == t.um \/ t.tm

\* C10: a field type with a text capability, or a pointer to one, is given
\* the text converter, wrapped for a pointer, and never the converter of its
\* kind; decoding calls UnmarshalText.
C10_TextConverterFirst ==
    (mode = "codec" /\ pc # "select") =>
        /\ TextCapable(input.type) =>
              output.sel = [err |-> "", codec |-> Codec("text", 0, 0, 0, "")]
        /\ (Optional /\ TextCapable(Deref(input.type))) =>
              output.sel = [err |-> "", codec |-> [Codec("text", 0, 0, 0, "") EXCEPT !.ptr = TRUE]]
        /\ (pc = "done" /\ Deref(input.type).um /\ input.text # <<>>) =>
              /\ output.dec.err = ""
              /\ Innermost(input.type, output.dec.v) = ToUpper(input.text)

\* A pointer to a type of kind int with UnmarshalText: "b" is not parsed as
\* an integer.
C10_Witness ==
    /\ mode = "codec" /\ pc = "done"
    /\ input.type = PtrTo(TextInt) /\ input.text = <<"b">> /\ input.base = 16
    /\ output.sel.codec.c = "text" /\ output.sel.codec.ptr
    /\ output.dec.v = << <<"B">> >>

\* ------------------------------------------------------------------------
\* Properties of the header of a record type.

\* The names of the included fields, in declaration order.
IncludedNames(t) == [i \in 1..Len(IncludedFields(t)) |-> IncludedFields(t)[i].name]

\* C11: the header of a record type that resolves is exactly the names of
\* its descriptors in descriptor order: one entry per exported field in
\* declaration order, the name of the tag if it gives one and the name of
\* the field otherwise, without the unexported fields and the fields named
\* "-".
C11_HeaderOfType ==
    mode = "resolve" =>
        \A c \in 1..Len(output) :
            output[c].err = "" =>
                /\ output[c].header = IncludedNames(input)
                /\ Len(output[c].header) = Len(output[c].fields)
                /\ \A i \in 1..Len(output[c].fields) :
                       output[c].header[i] = output[c].fields[i].Name

\* struct { A int `csv:"B"`; A2 int } with the second field named A: the
\* header is B, A.
C11_Witness ==
    /\ mode = "resolve"
    /\ input = StructOf(<<Tagged(NameA, NameB, Prim("Int")), Plain(NameA, Prim("Int"))>>)
    /\ Len(output) = 1
    /\ output[1].err = ""
    /\ output[1].header = <<NameB, NameA>>

\* ------------------------------------------------------------------------
\* Properties of embedded and inlined structs.

\* The 0-based paths of the included fields of a record type, in declaration
\* order: a flattened field has no path of its own, the paths of its fields
\* start with its position.
RECURSIVE IncludedPaths(_, _, _)
IncludedPaths(t, prefix, n) ==
    IF n > Len(t.fields) THEN <<>>
    ELSE LET f == t.fields[n]
         IN (IF ~f.Exported THEN <<>>
             ELSE IF Flattened(f) THEN IncludedPaths(f.Type, Append(prefix, n - 1), 1)
             ELSE IF ColumnName(f) = <<"-">> THEN <<>>
             ELSE << Append(prefix, n - 1) >>)
            \o IncludedPaths(t, prefix, n + 1)

\* The path p comes before the path q in declaration order.
RECURSIVE PathBefore(_, _)
PathBefore(p, q) ==
    /\ p # <<>> /\ q # <<>>
    /\ \/ Head(p) < Head(q)
       \/ Head(p) = Head(q) /\ PathBefore(Tail(p), Tail(q))

\* A position of the record type holds a flattened field.
FlattenedAt(t, n) == t.fields[n].Exported /\ Flattened(t.fields[n])

\* C12: an embedded or inlined struct field has no descriptor of its own;
\* the descriptors of its fields stand at its position in the list of the
\* parent, their paths prefixed by the position of the field, so that the
\* list is in declaration order through every level of nesting.
C12_InlineSplice ==
    mode = "resolve" =>
        \A c \in 1..Len(output) :
            output[c].err = "" =>
                /\ [i \in 1..Len(output[c].fields) |-> output[c].fields[i].Index]
                       = IncludedPaths(input, <<>>, 1)
                /\ \A n \in 1..Len(input.fields) :
                       FlattenedAt(input, n) =>
                           /\ \A i \in 1..Len(output[c].fields) :
                                  output[c].fields[i].Index # <<n - 1>>
                           /\ \A i \in 1..Len(output[c].fields) :
                                  Head(output[c].fields[i].Index) = n - 1 =>
                                      Len(output[c].fields[i].Index) > 1
                /\ \A i, j \in 1..Len(output[c].fields) :
                       i < j => PathBefore(output[c].fields[i].Index, output[c].fields[j].Index)

\* struct { I; B uppercase } with I = struct { InnerC; A int } and InnerC =
\* struct { C int }: the descriptors are C at 0.0.0, A at 0.1 and B at 1.
C12_Witness ==
    /\ mode = "resolve"
    /\ input = StructOf(<<Embedded(<<"I">>, InnerNest), Plain(NameB, Uppercase)>>)
    /\ Len(output) = 1
    /\ output[1].err = ""
    /\ output[1].header = <<NameC, NameA, NameB>>
    /\ output[1].fields[1].Index = <<0, 0, 0>>
    /\ output[1].fields[2].Index = <<0, 1>>
    /\ output[1].fields[3].Index = <<1>>

\* ------------------------------------------------------------------------
\* parseTag applied to one tag.

\* The largest number of segments after the name of a tag.
MaxSegs == 2

\* The segments of the tags: valid and malformed parameters, an unknown
\* word and the empty segment.
TagSegments ==
    { <<"b", "a", "s", "e", "=", "1", "6">>, <<"b", "a", "s", "e", "=", "2">>,
      <<"b", "a", "s", "e", "=", "x">>, <<"b", "a", "s", "e", "=">>,
      <<"p", "r", "e", "c", "=", "3">>, <<"p", "r", "e", "c", "=">>,
      <<"f", "m", "t", "=", "E">>, <<"f", "m", "t", "=", "z">>, <<"f", "m", "t", "=">>,
      <<"i", "n", "l", "i", "n", "e">>, <<>> }

\* The tag text: the name and then each segment after a comma.
RECURSIVE TagOf(_, _)
TagOf(name, segs) ==
    IF segs = <<>> THEN name
    ELSE TagOf(name \o <<",">> \o Head(segs), Tail(segs))

InitTag ==
    /\ mode = "tag"
    /\ pc = "parse"
    /\ input \in [name : { <<>>, NameA, <<"-">> }, segs : SeqsOf(TagSegments, 0, MaxSegs)]
    /\ output = <<>>
    /\ InitSession

\* parseTag is called with the tag.
CallParseTag ==
    /\ mode = "tag" /\ pc = "parse"
    /\ output' = parseTag(TagOf(input.name, input.segs))
    /\ pc' = "done"
    /\ UNCHANGED <<mode, source, structLock, input>>
    /\ UNCHANGED sessionVars

SpecTag == InitTag /\ [][CallParseTag]_vars

\* ------------------------------------------------------------------------
\* Properties of parseTag.

\* The segment is key=N with N an integer.
IntSegment(seg, key) == HasPrefix(seg, key) /\ Atoi(Tail2(seg, Len(key))).err = ""

\* The segment is fmt=C with C an accepted format character.
FmtSegment(seg) ==
    /\ HasPrefix(seg, <<"f", "m", "t", "=">>)
    /\ Len(seg) > 4
    /\ seg[5] \in {"b", "e", "E", "f", "g", "G", "x", "X"}

\* The value the tag gives an integer parameter: that of the last valid
\* segment for the key, or the default.
LastInt(segs, key, default) ==
    LET valid == { i \in 1..Len(segs) : IntSegment(segs[i], key) }
    IN IF valid = {} THEN default
       ELSE Atoi(Tail2(segs[CHOOSE i \in valid : \A j \in valid : j <= i], Len(key))).v

LastFmt(segs) ==
    LET valid == { i \in 1..Len(segs) : FmtSegment(segs[i]) }
    IN IF valid = {} THEN "f"
       ELSE segs[CHOOSE i \in valid : \A j \in valid : j <= i][5]

\* C13: parseTag returns, for every tag, the text before the first comma as
\* the name, and base 10, precision -1 and format 'f' unless a segment
\* base=N, prec=N or fmt=C with a valid N or C overrides them, the last
\* valid one for a key winning; every other segment changes nothing.
C13_ParseTag ==
    (mode = "tag" /\ pc = "done") =>
        /\ ~output.panic
        /\ output.name = input.name
        /\ output.base = LastInt(input.segs, <<"b", "a", "s", "e", "=">>, 10)
        /\ output.prec = LastInt(input.segs, <<"p", "r", "e", "c", "=">>, -1)
        /\ output.fmt = LastFmt(input.segs)

\* The tag "A,base=16,base=2": the later base wins.
C13_Witness ==
    /\ mode = "tag" /\ pc = "done"
    /\ input = [name |-> NameA, segs |-> << <<"b", "a", "s", "e", "=", "1", "6">>,
                                            <<"b", "a", "s", "e", "=", "2">> >>]
    /\ output = [name |-> NameA, base |-> 2, prec |-> -1, fmt |-> "f", panic |-> FALSE]

\* ------------------------------------------------------------------------
\* C14, as stated: a type-resolution error is raised on the first use of
\* the record type, and every later resolution of the same type returns that
\* error from the cache, without resolving the type again.
C14_ErrorFromCache ==
    mode = "resolve" =>
        \A c \in 1..Len(output) :
            output[1].err # "" =>
                /\ output[c].err = output[1].err
                /\ (c > 1 => output[c].hit)

\* C14, amended: a type-resolution error is not stored.  When the first
\* resolution of a record type fails, every resolution of that type misses
\* the cache, resolves the type again and returns the same error with no
\* list, and the cache never holds the type.
C14_ErrorEveryUse ==
    mode = "resolve" =>
        \A c \in 1..Len(output) :
            output[1].err # "" =>
                /\ output[c].err = output[1].err
                /\ output[c].fields = <<>>
                /\ ~output[c].hit
                /\ input \notin DOMAIN structCache

C14_Witness ==
    /\ mode = "resolve"
    /\ input = StructOf(<<Plain(NameA, Prim("Int")), Tagged(NameB, NameA, Prim("String"))>>)
    /\ Len(output) = 2
    /\ output[1].err = "duplicate field name"
    /\ output[2].err = "duplicate field name"
    /\ ~output[2].hit

\* ------------------------------------------------------------------------
\* The lookup-or-populate section of structFieldsOf, and a call that has
\* its result.
InSection(th) == pc[th] \in {"lookup", "populate", "return"}

HasReturned(th) == pc[th] \in {"return", "done"}

\* C15: for threads calling structFieldsOf concurrently, for the same or
\* for different record types, in any interleaving: no two threads are inside
\* the lookup-or-populate section at the same time (the thread inside is the
\* one holding the lock), the list of a type that resolves is computed and
\* stored at most once, and every caller for that type gets that same list.
C15_LockedCache ==
    mode = "threads" =>
        /\ \A th1, th2 \in 1..MaxThreads : InSection(th1) /\ InSection(th2) => th1 = th2
        /\ \A th \in 1..MaxThreads : InSection(th) <=> structLock = th
        /\ \A th1, th2 \in 1..MaxThreads :
               /\ HasReturned(th1) /\ HasReturned(th2)
               /\ input[th1] = input[th2]
               /\ output[th1].err = ""
               => /\ output[th2].err = ""
                  /\ output[th2].fields = output[th1].fields
                  /\ output[th1].fields = structCache[input[th1]]
                  /\ (~output[th1].hit /\ ~output[th2].hit => th1 = th2)

C15_Witness ==
    /\ mode = "threads"
    /\ input[1] = StructOf(<<Plain(NameA, Prim("Int"))>>)
    /\ input[2] = input[1]
    /\ pc[1] = "done" /\ pc[2] = "done"
    /\ ~output[2].hit
    /\ output[1].hit
    /\ Len(output[1].fields) = 1

\* ------------------------------------------------------------------------
\* The number a text denotes in a base, and the range of a bit width.
IsNumeral(s, base) ==
    LET Body(d) == d # <<>> /\ \A i \in 1..Len(d) : DigitVal(d[i]) < base
    IN s # <<>> /\ Body(IF Head(s) \in {"-", "+"} THEN Tail(s) ELSE s)

Denoted(s, base) ==
    IF Head(s) = "-" THEN 0 - DigitsValue(Tail(s), base, 0)
    ELSE IF Head(s) = "+" THEN DigitsValue(Tail(s), base, 0)
    ELSE DigitsValue(s, base, 0)

InWidth(n, kind) ==
    LET w == BitSizeOf(kind)
    IN IF kind \in UintKinds THEN n >= 0 /\ (w >= 31 \/ n < Pow2(w))
       ELSE w >= 31 \/ (n >= 0 - Pow2(w - 1) /\ n < Pow2(w - 1))

IntegerField(t) == t.kind \in IntKinds \cup UintKinds /\ ~t.um

ExactAt(r, t, s, base) ==
    IsNumeral(s, base) /\ ~(Head(s) \in {"-", "+"} /\ t.kind \in UintKinds) =>
        IF InWidth(Denoted(s, base), t.kind)
        THEN r.err = "" /\ r.v = Denoted(s, base)
        ELSE r.err # "" /\ r.v = Zero(t)

\* C16 for the converter alone: intCodec and uintCodec decode at the declared
\* bit width, in the base of the tag.
C16_ConverterExact ==
    mode = "codec" /\ pc \in {"encode", "done"} /\ IntegerField(input.type) =>
        ExactAt(output.dec, input.type, input.text, input.base)

\* C16: an integer field is decoded at exactly its declared bit width.
\* Text denoting a value outside the range of that width is a conversion
\* error and leaves the field unchanged, never a value wrapped modulo
\* 2^width; text denoting a value inside the range stores that value.  This
\* is required of the converter of the field (in the base of its tag) and of
\* decodeField, which the decode driver calls (in base 10).
C16_ExactWidth ==
    mode = "codec" /\ pc \in {"encode", "done"} /\ IntegerField(input.type) =>
        /\ ExactAt(output.dec, input.type, input.text, input.base)
        /\ ExactAt(output.decf, input.type, input.text, 10)

C16_Witness ==
    /\ mode = "codec" /\ pc = "done"
    /\ input.type = Prim("Int8")
    /\ input.text = <<"3", "0", "0">>
    /\ input.base = 10
    /\ output.dec.err # ""
    /\ output.decf.err = ""
    /\ output.decf.v = 44

\* ------------------------------------------------------------------------
\* The text of a value of the records in base 16.
HexText(n) == IF n = 43 THEN <<"2", "b">> ELSE <<"0">>

\* C17 for Encode alone: the encode driver writes the field tagged base=16
\* in base 16.
C17_EncodeUsesTag ==
    mode = "roundtrip" /\ enc.type = THexOpt /\ pc \in {"encoded", "start", "header", "rows", "done"} =>
        /\ Len(written) = Len(recs) + 1
        /\ \A i \in 1..Len(recs) : written[i + 1][1] = HexText(recs[i][1])

\* C17: the base declared in a field's tag is the one the decode and the
\* encode drivers convert the field with.  For the records of
\* struct { A uint8 `csv:"A,base=16"`; B *string }: Encode writes 43 as "2b",
\* and Decode of the rows written succeeds and stores 43 for "2b".
C17_TagParameters ==
    mode = "roundtrip" /\ enc.type = THexOpt /\ pc = "done" =>
        /\ \A i \in 1..Len(recs) : written[i + 1][1] = HexText(recs[i][1])
        /\ result = ""
        /\ Len(dest) = Len(recs)
        /\ \A i \in 1..Len(recs) : dest[i][1] = recs[i][1]

C17_Witness ==
    /\ mode = "roundtrip" /\ enc.type = THexOpt /\ pc = "done"
    /\ recs = << <<43, <<>>>> >>
    /\ written = << <<NameA, NameB>>, << <<"2", "b">>, <<>> >> >>
    /\ result # ""
    /\ dest = Untouched

\* ------------------------------------------------------------------------
\* The arguments the operations accept: a non-nil pointer to a slice of
\* records, respectively a non-nil function taking a record pointer and
\* returning an error.
IsRecordSlicePtr(a) ==
    /\ ~a.untyped /\ ~a.isnil
    /\ a.type.kind = "Ptr"
    /\ a.type.elem[1].kind = "Slice"
    /\ a.type.elem[1].elem[1].kind = "Struct"

IsRecordFunc(a) ==
    /\ ~a.untyped /\ ~a.isnil
    /\ a.type.kind = "Func"
    /\ Len(a.type.ins) = 1 /\ a.type.outs = <<Prim("error")>>
    /\ a.type.ins[1].kind = "Ptr"
    /\ a.type.ins[1].elem[1].kind = "Struct"

Malformed(op, a) == IF op = "DecodeFunc" THEN ~IsRecordFunc(a) ELSE ~IsRecordSlicePtr(a)

InvalidArgumentErrors == {"invalid argument", "invalid type"}

\* C18 for Decode, DecodeFunc and Encode, given an argument on which
\* reflect.Value.IsNil is defined: a malformed argument is answered with an
\* invalid-argument error before the driver runs.
C18_NillableArguments ==
    /\ mode = "args" /\ pc = "done" /\ output.op # "Header"
    /\ Malformed(output.op, input)
    /\ (input.untyped \/ input.type.kind \in {"Ptr", "Slice", "Func"})
    => ~output.panic /\ output.err \in InvalidArgumentErrors /\ ~output.io

\* C18: Decode, DecodeFunc, Encode and Header, given a malformed argument
\* (nil, a nil pointer, or a value that is not a pointer to a slice of
\* records, respectively not a function taking a record pointer and
\* returning an error), return an invalid-argument error as a value, without
\* panicking and before the row source is read or the row sink is written.
C18_InvalidArgument ==
    mode = "args" /\ pc = "done" /\ Malformed(output.op, input)
    => ~output.panic /\ output.err \in InvalidArgumentErrors /\ ~output.io

C18_Witness ==
    /\ mode = "args" /\ pc = "done"
    /\ input = Arg(Prim("Int"), FALSE)
    /\ output.op = "Decode"
    /\ output.panic

C18_WitnessHeader ==
    /\ mode = "args" /\ pc = "done"
    /\ input.untyped
    /\ output.op = "Header"
    /\ output.panic

\* ------------------------------------------------------------------------
\* C19: an error of the row source other than the end of input, at the
\* header or at any data row, aborts the decode and is returned to the
\* caller, also when SkipInvalidRows is active: the step that reads it ends
\* the session with that error as the result, adds nothing to the error list
\* and delivers nothing.
C19_StreamErrorAborts ==
    [][ /\ mode = "decode"
        /\ stream # <<>> /\ Head(stream).err
        /\ pc = "rows" \/ (pc = "header" /\ Len(dec.header) = 0)
        => /\ pc' = "done"
           /\ result' = "read error"
           /\ errors' = errors
           /\ out' = out
           /\ dest' = dest
           /\ readlog' = readlog ]_vars

\* With SkipInvalidRows, a row was skipped and then the source failed.
C19_Witness ==
    /\ mode = "decode" /\ pc = "done"
    /\ dec.skipInvalidRows
    /\ result = "read error"
    /\ Len(errors) = 1
    /\ Len(readlog) = 1
    /\ nread = Len(readlog) + (IF Len(dec.header) = 0 THEN 2 ELSE 1)

\* The source failed at the header.
C19_WitnessHeader ==
    /\ mode = "decode" /\ pc = "done"
    /\ dec.skipInvalidRows
    /\ Len(dec.header) = 0
    /\ result = "read error"
    /\ nread = 1

\* ------------------------------------------------------------------------
\* What the hooks of the model return, and the calls the drivers logged.
Hooked(hook, name, text) ==
    IF hook = "zeroB" /\ name = NameB /\ text = <<>> THEN <<"0">> ELSE text

\* Call k of a row of Decode is the call for pair k: the column and the
\* name are those of the pair, the hook got the raw text of the column and
\* the converter parsed what the hook returned.
DecodeCallOf(e, k) ==
    LET Check(call, field, ft) ==
            /\ call.column = PairColumn(k)
            /\ call.name = field.Name
            /\ call.raw = (IF call.column < Len(e.row) THEN e.row[call.column + 1] ELSE <<>>)
            /\ call.value = Hooked(dec.hook, field.Name, call.raw)
            /\ (k < Len(e.calls) \/ e.err = NoError =>
                    FieldByIndex(e.val, field.Index)
                        = decodeField(ft, Zero(ft), kindOf(ft), call.value).v)
        With(field) == Check(e.calls[k], field, TypeByIndex(dec.type, field.Index))
    IN With(fields[PairField(k) + 1])

\* Call k of a record of Encode is the call for pair k: the hook got the
\* output of the converter, and what it returned went into the row.
EncodeCallOf(i, k) ==
    LET Check(call, field, ft) ==
            /\ call.column = PairColumn(k)
            /\ call.name = field.Name
            /\ call.raw = Encode(field.codec, ft, FieldByIndex(recs[i], field.Index)).s
            /\ call.value = Hooked(enc.hook, field.Name, call.raw)
        With(field) == Check(enclog[i][k], field, TypeByIndex(enc.type, field.Index))
    IN With(fields[PairField(k) + 1])

RowWritten(i) == written[i + (IF enc.skipHeader THEN 0 ELSE 1)]

C20_WitnessEncode ==
    /\ mode = "encode" /\ pc = "encoded"
    /\ enc.hook = "zeroB"
    /\ \E i \in 1..Len(enclog) :
           /\ Len(enclog[i]) = 2
           /\ \E k \in 1..2 :
                  /\ enclog[i][k].raw = <<>>
                  /\ enclog[i][k].value = <<"0">>
                  /\ RowWritten(i)[PairColumn(k) + 1] = <<"0">>

\* ------------------------------------------------------------------------
\* C21: for every input and decoder configuration on which Decode
\* succeeds, DecodeFunc with a callback that never fails succeeds too, and
\* the arguments of its callback calls are exactly the records of Decode's
\* result, one call per record, in the same order; the accumulated errors
\* are the same.
C21_StreamingSameAsBulk ==
    mode = "decodefunc" /\ pc = "done" /\ output.err = "" /\ input.failAt = 0 =>
        /\ result = ""
        /\ out = output.v
        /\ errors = output.errors

\* Two different records, in the order of the input.
C21_Witness ==
    /\ mode = "decodefunc" /\ pc = "done"
    /\ output.err = "" /\ input.failAt = 0
    /\ Len(out) = 2
    /\ out[1] # out[2]
    /\ out = output.v

\* A record delivered after a skipped row.
C21_WitnessSkip ==
    /\ mode = "decodefunc" /\ pc = "done"
    /\ output.err = "" /\ input.failAt = 0
    /\ dec.skipInvalidRows
    /\ Len(out) = 1
    /\ Len(errors) = 1
    /\ ~readlog[1].delivered

\* ------------------------------------------------------------------------
\* The rows of the input a decode session has consumed, and whether the
\* session reads its header from the input.
Consumed == Len(source) - Len(stream)

ReadsHeader == Len(dec.header) = 0

\* The steps of a decode session, in the order Init -> HeaderResolved ->
\* ReadingRow* -> Done.
SessionSteps ==
    { <<"start", "header">>, <<"start", "done">>, <<"header", "rows">>,
      <<"header", "done">>, <<"rows", "rows">>, <<"rows", "done">> }

\* What a decode session has read: the rows of the input in order, the
\* header from the first row unless it was declared, every data row after it.
SessionReads ==
    mode = "decode" =>
        /\ stream = SubSeq(source, Consumed + 1, Len(source))
        /\ pc \in {"start", "header"} => Consumed = 0 /\ nread = 0 /\ readlog = <<>>
        /\ pc = "rows" =>
               /\ header = (IF ReadsHeader THEN source[1].row ELSE dec.header)
               /\ nread = Consumed
               /\ Len(readlog) = Consumed - (IF ReadsHeader THEN 1 ELSE 0)
        /\ \A r \in 1..Len(readlog) :
               readlog[r].row = source[r + (IF ReadsHeader THEN 1 ELSE 0)].row

\* C22: a decode session follows Init -> HeaderResolved -> ReadingRow* ->
\* Done.  The header is obtained and bound once, in one step: by reading
\* the first row, or, when a header was declared, without reading any row,
\* so that the first row of the input is decoded as data.  The binding does not change while rows are read.  The
\* end of input at any read, the header read included, ends the session with
\* no error, and after the end of input or a returned error nothing is read.
C22_SessionOrder ==
    /\ []SessionReads
    /\ [][ mode = "decode" =>
            /\ <<pc, pc'>> \in SessionSteps
            /\ pc # "header" => header' = header /\ indices' = indices
            /\ pc = "header" => nread' = (IF ReadsHeader THEN 1 ELSE 0)
            /\ pc = "header" /\ ~ReadsHeader => stream' = stream
            /\ pc \in {"header", "rows"} /\ stream = <<>> /\ (pc = "rows" \/ ReadsHeader)
                   => pc' = "done" /\ result' = ""
            /\ pc = "rows" => nread' = nread + 1
            /\ pc' = "done" /\ result' # "" => dest' = dest ]_vars

\* A header was declared: both rows of the input were decoded as data, and
\* the third read met the end of input.
C22_Witness ==
    /\ mode = "decode" /\ pc = "done"
    /\ ~ReadsHeader
    /\ Len(source) = 2
    /\ Len(readlog) = 2
    /\ readlog[1].row = source[1].row
    /\ nread = 3
    /\ result = ""

\* The header was read from the input, which ended there.
C22_WitnessHeaderOnly ==
    /\ mode = "decode" /\ pc = "done"
    /\ ReadsHeader
    /\ Len(source) = 1 /\ ~source[1].err
    /\ header = source[1].row
    /\ nread = 2
    /\ result = ""
\* ------------------------------------------------------------------------
\* C23

\* The descriptors a header entry names.
Named(name) == { k \in 1..Len(fields) : fields[k].Name = name }

\* What column i of the row of a record holds: the encoded value of the
\* descriptor the header entry names, passed through the hook.
ColumnOf(rec, i) ==
    IF Named(header[i]) = {} THEN <<>>
    ELSE LET f == fields[CHOOSE k \in Named(header[i]) : TRUE]
         IN mapFunc(enc.hook, f.Name,
                    Encode(f.codec, TypeByIndex(enc.type, f.Index),
                           FieldByIndex(rec, f.Index)).s)

RowOf(rec) == [i \in 1..Len(header) |-> ColumnOf(rec, i)]

HeaderPart == IF enc.skipHeader THEN <<>> ELSE <<header>>

RowsDone == Len(written) - Len(HeaderPart)

\* The header, unless suppressed, and the rows of the first n records.
OutputOf(n) == HeaderPart \o [k \in 1..n |-> RowOf(recs[k])]

Flushed == pc = "encoded" /\ result \in {"", "flush error"}

\* C23: Encode writes the header once, first, unless it is suppressed; then
\* one row per record in input order, each as long as the header and holding
\* in column i the encoded value of the descriptor header entry i names; then
\* it flushes the sink and returns the error of the flush.
C23_EncodeOrder ==
    mode = "encode" =>
        /\ pc = "encode" => written = <<>>
        /\ pc = "records" => RowsDone \in 0..Len(recs) /\ written = OutputOf(RowsDone)
        /\ Flushed =>
              /\ written = OutputOf(Len(recs))
              /\ \A k \in 1..Len(recs) : Len(written[Len(HeaderPart) + k]) = Len(header)
              /\ result = (IF enc.sink.failFlush THEN "flush error" ELSE "")

C23_Witness ==
    /\ mode = "encode" /\ Flushed /\ result = "flush error"
    /\ ~enc.skipHeader /\ Len(recs) = 2 /\ recs[1] # recs[2]
    /\ Len(written) = 3 /\ written[1] = header /\ written[2] # written[3]

C23_WitnessNoHeader ==
    /\ mode = "encode" /\ Flushed /\ result = ""
    /\ enc.skipHeader /\ enc.header = <<NameB, NameC>> /\ Len(recs) = 2
    /\ Len(written) = 2 /\ written[1] # written[2]
\* ------------------------------------------------------------------------
\* C24

\* A bound field of the record cannot be encoded.
ConvFails(rec) ==
    \E i \in 1..Len(header) :
        /\ Named(header[i]) # {}
        /\ LET f == fields[CHOOSE k \in Named(header[i]) : TRUE]
           IN Encode(f.codec, TypeByIndex(enc.type, f.Index), FieldByIndex(rec, f.Index)).err # ""

\* Record k cannot be converted or its row cannot be written; 0 stands for
\* the header row.
FailsAt(k) ==
    IF k = 0 THEN ~enc.skipHeader /\ enc.sink.failWrite = 1
    ELSE ConvFails(recs[k]) \/ enc.sink.failWrite = Len(HeaderPart) + k

Failures == { k \in 0..Len(recs) : FailsAt(k) }

FirstFailure == CHOOSE k \in Failures : \A j \in Failures : k <= j

\* C24: the first converter failure or write failure ends Encode at once:
\* the error is returned, and the row of the failing record and the rows of
\* the records after it are not written.
C24_FirstFailureEnds ==
    mode = "encode" /\ pc \in {"records", "encoded"} /\ Failures # {} =>
        /\ RowsDone < FirstFailure \/ written = <<>>
        /\ pc = "encoded" =>
              /\ written = (IF FirstFailure = 0 THEN <<>> ELSE OutputOf(FirstFailure - 1))
              /\ result \notin {"", "flush error"}
              /\ result = "write error" <=>
                     FirstFailure = 0 \/ ~ConvFails(recs[FirstFailure])

C24_Witness ==
    /\ mode = "encode" /\ pc = "encoded" /\ result = "write error"
    /\ Len(recs) = 2 /\ FirstFailure = 2 /\ ~enc.skipHeader
    /\ written = <<header, RowOf(recs[1])>>

C24_WitnessConverter ==
    /\ mode = "encode" /\ pc = "encoded" /\ result = "notMarshaler"
    /\ Len(recs) = 2 /\ FirstFailure = 1 /\ ~ConvFails(recs[2])
    /\ enc.sink = GoodSink /\ written = <<header>>
\* ------------------------------------------------------------------------
\* C25

\* The number of pointer levels of a value that are not nil, from the
\* outermost.
RECURSIVE Allocated(_, _)
Allocated(t, v) ==
    IF t.kind # "Ptr" \/ v = <<>> THEN 0 ELSE 1 + Allocated(t.elem[1], v[1])

InnerCodec == [output.sel.codec EXCEPT !.ptr = FALSE]

\* C25: the optional wrapper works at every pointer depth: text that is not
\* empty allocates every level and is converted by the inner converter at
\* the innermost level; encoding follows the pointers and gives the empty
\* string as soon as a level is nil, and the inner converter's text otherwise.
C25_NestedOptional ==
    (Selected /\ Optional /\ pc = "done") =>
        /\ input.text # <<>> =>
              /\ Allocated(input.type, output.dec.v) = PtrDepth(input.type)
              /\ Allocated(input.type, output.decf.v) = PtrDepth(input.type)
              /\ output.dec.inner /\ output.decf.inner
              /\ LET r == CodecDecode(InnerCodec, Deref(input.type),
                                      Zero(Deref(input.type)), input.text)
                 IN /\ output.dec.err = r.err
                    /\ Innermost(input.type, output.dec.v) = r.v
        /\ input.text = <<>> =>
              /\ Allocated(input.type, output.dec.v) = 0
              /\ Allocated(input.type, output.decf.v) = 0
        /\ Allocated(input.type, input.value) < PtrDepth(input.type) =>
              output.enc = [err |-> "", s |-> <<>>, inner |-> FALSE]
        /\ Allocated(input.type, input.value) = PtrDepth(input.type) =>
              LET r == CodecEncode(InnerCodec, Deref(input.type),
                                   Innermost(input.type, input.value))
              IN output.enc = [err |-> r.err, s |-> r.s, inner |-> TRUE]

\* "-1" decoded into a **int, and a pointer to a nil pointer encoded.
C25_Witness ==
    /\ Selected /\ pc = "done"
    /\ input.type = PtrTo(PtrTo(Prim("Int"))) /\ input.base = 10
    /\ input.text = <<"-", "1">> /\ input.value = << <<>> >>
    /\ output.dec.v = << <<-1>> >> /\ output.decf.v = << <<-1>> >>
    /\ output.enc.s = <<>> /\ ~output.enc.inner

\* Text given to UnmarshalText below two pointers, and a present value
\* below two pointers encoded.
C25_WitnessText ==
    /\ Selected /\ pc = "done"
    /\ input.type = PtrTo(PtrTo(Uppercase))
    /\ input.text = <<"b">> /\ input.value = << << <<"X">> >> >>
    /\ output.dec.v = << << <<"B">> >> >>
    /\ output.enc.s = <<"X">> /\ output.enc.inner
\* ------------------------------------------------------------------------
\* C26

Decoding == mode \in {"decode", "roundtrip"} /\ pc \in {"start", "header", "rows", "done"}

\* C26: when Decode returns an error the destination slice is as it was
\* before the call; it is assigned once only, when the whole input was
\* decoded without an error, and then holds the records decoded.
C26_DestinationOnSuccess ==
    Decoding =>
        /\ pc # "done" \/ result # "" => dest = Untouched
        /\ pc = "done" /\ result = "" => dest = out /\ stream = <<>>

\* A conversion error in the second data row: one record was decoded, and
\* the destination is untouched.
C26_Witness ==
    /\ mode = "decode" /\ pc = "done" /\ result # ""
    /\ Len(out) = 1 /\ Len(readlog) = 2 /\ readlog[2].err # NoError
    /\ dest = Untouched

C26_WitnessStored ==
    /\ mode = "decode" /\ pc = "done" /\ result = ""
    /\ Len(out) = 2 /\ dest = out
\* ------------------------------------------------------------------------
\* C27

\* The data rows the session has read from the source.
DataRowsRead == IF Consumed = 0 THEN 0 ELSE Consumed - (IF ReadsHeader THEN 1 ELSE 0)

\* The conversion of the column of pair k of a row into a zero field.
PairResult(row, k) ==
    LET f  == fields[PairField(k) + 1]
        ft == TypeByIndex(dec.type, f.Index)
    IN decodeField(ft, Zero(ft), kindOf(ft),
                   cleanerFunc(dec.hook, f.Name, ColumnValue(row, PairColumn(k))))

FailingPairs(row) == { k \in 1..NumPairs : PairResult(row, k).err # "" }

WrongCount(row) == dec.noUnknownFields /\ Len(row) > Len(fields)

\* The one error of a row: the field count, or else the first field that
\* does not convert.
ErrorOf(row) ==
    IF WrongCount(row) THEN [kind |-> "ErrFieldCount", field |-> 0]
    ELSE LET failing == FailingPairs(row)
             first   == CHOOSE k \in failing : \A j \in failing : k <= j
         IN IF failing = {} THEN NoError
            ELSE [kind |-> PairResult(row, first).err,
                  field |-> ErrorField(row, PairColumn(first))]

\* The record of a row, built from a zero record: a bound field holds the
\* conversion of its column, every other field its zero value.
FreshRecord(row, val) ==
    \A j \in 1..Len(fields) :
        LET bound == { k \in 1..NumPairs : PairField(k) = j - 1 }
            last  == CHOOSE k \in bound : \A i \in bound : i <= k
        IN FieldByIndex(val, fields[j].Index) =
              IF bound = {} THEN FieldByIndex(Zero(dec.type), fields[j].Index)
              ELSE PairResult(row, last).v

Delivered == { i \in 1..Len(readlog) : readlog[i].delivered }

\* C27: with SkipInvalidRows and no error of the stream, every data row
\* read is either delivered, once, or adds one entry to the error list, for
\* its first failing field only, so that the records delivered and the
\* errors together are as many as the rows read; every row is decoded into
\* a new zero record.
C27_SkippedOrDelivered ==
    (mode = "decode" /\ dec.skipInvalidRows /\ ~dec.noShortFields
       /\ pc \in {"rows", "done"} /\ result # "read error") =>
        /\ Len(readlog) = DataRowsRead
        /\ Len(out) + Len(errors) = Len(readlog)
        /\ Len(out) = Cardinality(Delivered)
        /\ \A i \in 1..Len(readlog) :
              LET e    == readlog[i]
                  err  == ErrorOf(e.row)
                  rank == Cardinality({ j \in Delivered : j <= i })
              IN /\ e.row = source[Consumed - Len(readlog) + i].row
                 /\ e.err = err
                 /\ e.delivered <=> err = NoError
                 /\ e.delivered => out[rank] = e.val /\ FreshRecord(e.row, e.val)
                 /\ ~e.delivered => errors[i - rank] = err

\* A row whose two fields both fail, reported for the first, and then a row
\* that leaves the optional field nil.
C27_Witness ==
    /\ mode = "decode" /\ dec.skipInvalidRows /\ ~dec.noShortFields
    /\ pc = "done" /\ result = ""
    /\ dec.type = TIntOpt /\ Len(readlog) = 2
    /\ Cardinality(FailingPairs(readlog[1].row)) = 2
    /\ Len(errors) = 1 /\ errors[1].field = 0
    /\ Len(out) = 1 /\ out[1] = <<1, <<>>>>
\* ------------------------------------------------------------------------
\* C28

\* C28: an error returned by the callback of DecodeFunc ends the decoding at
\* once, with SkipInvalidRows too: it is returned, it is not added to the
\* error list, the callback is not called again and no further row is read.
C28_CallbackErrorStops ==
    (mode = "decodefunc" /\ input.failAt > 0 /\ Len(out) >= input.failAt) =>
        /\ Len(out) = input.failAt
        /\ pc = "done"
        /\ result = "callback error"
        /\ readlog[Len(readlog)].delivered
        /\ nread = Len(readlog) + (IF ReadsHeader THEN 1 ELSE 0)
        /\ Consumed = nread
        /\ errors = BadErrors

\* With SkipInvalidRows: a row is skipped, and the callback fails at the
\* next one.
C28_Witness ==
    /\ mode = "decodefunc" /\ pc = "done" /\ dec.skipInvalidRows
    /\ input.failAt = 1 /\ result = "callback error"
    /\ Len(errors) = 1 /\ Len(out) = 1

\* The callback fails at the first row, and the second row is never read.
C28_WitnessUnread ==
    /\ mode = "decodefunc" /\ pc = "done"
    /\ input.failAt = 1 /\ result = "callback error"
    /\ Len(readlog) = 1 /\ stream # <<>> /\ ~Head(stream).err
\* ------------------------------------------------------------------------
\* C29

AllReturned == \A th \in 1..MaxThreads : pc[th] = "done"

\* C29: a call of structFieldsOf releases the lock before it returns, on
\* the path of a cache hit, of a resolution that succeeds and of one that
\* fails, and takes the lock only when nobody holds it, never a second time
\* while it holds it (the walk into embedded structs takes no lock); hence
\* every one of the concurrent calls eventually returns.
C29_EveryCallReturns ==
    /\ [](mode = "threads" =>
            \A th \in 1..MaxThreads : pc[th] \in {"call", "done"} => structLock # th)
    /\ [][mode = "threads" =>
            \A th \in 1..MaxThreads :
                /\ structLock' = th /\ structLock # th => structLock = 0 /\ pc[th] = "call"
                /\ structLock = th /\ pc[th] # "return" => structLock' = th]_vars
    /\ <>AllReturned

\* Both calls have returned: one failed, the other walked an embedded
\* struct, and the lock is free.
C29_Witness ==
    /\ mode = "threads" /\ AllReturned /\ structLock = 0
    /\ output[1].err # "" /\ output[2].err = "" /\ ~output[2].hit
    /\ input[2] = StructOf(<<Embedded(<<"I">>, InnerNest)>>)
    /\ Len(output[2].fields) = 2

\* Both calls have returned, the second from a cache hit.
C29_WitnessHit ==
    /\ mode = "threads" /\ AllReturned /\ structLock = 0
    /\ output[1].err = "" /\ ~output[1].hit /\ output[2].hit
\* ------------------------------------------------------------------------
\* C30

\* The field type, below its pointers, has exactly one text capability.
OneCapability == Deref(input.type).um # Deref(input.type).tm

LacksUnmarshal == ~Deref(input.type).um /\ Deref(input.type).tm

LacksMarshal == Deref(input.type).um /\ ~Deref(input.type).tm

\* C30 for the converter alone: a type with one text capability gets the
\* text converter, and the converter returns an error in the direction the
\* type lacks.
C30_ConverterRefuses ==
    (mode = "codec" /\ pc = "done" /\ OneCapability) =>
        /\ output.sel.err = ""
        /\ output.sel.codec.c = "text"
        /\ LacksUnmarshal /\ output.dec.inner => output.dec.err = "notUnmarshaler"
        /\ LacksMarshal /\ output.enc.inner => output.enc.err = "notMarshaler"

\* C30: a field type with only one text capability is accepted by the
\* resolution and bound to the text converter; a conversion in the
\* direction it lacks returns a conversion error when a row is converted,
\* and does not fall back to the converter of the primitive kind.  This is
\* required of the converter of the field and of decodeField, which the
\* decode driver calls.
C30_OneCapability ==
    (mode = "codec" /\ pc = "done" /\ OneCapability) =>
        /\ output.sel.err = ""
        /\ output.sel.codec.c = "text"
        /\ LacksUnmarshal /\ output.dec.inner => output.dec.err = "notUnmarshaler"
        /\ LacksUnmarshal /\ output.decf.inner => output.decf.err # ""
        /\ LacksMarshal /\ output.enc.inner => output.enc.err = "notMarshaler"

\* Text decoded into a field of a string type that can only marshal: the
\* converter refuses, decodeField stores the text like a plain string.
C30_Witness ==
    /\ mode = "codec" /\ pc = "done"
    /\ input.type = OnlyMarshaler /\ input.text = <<"b">>
    /\ output.sel.codec.c = "text"
    /\ output.dec.err = "notUnmarshaler"
    /\ output.decf.err = "" /\ output.decf.v = <<"b">>

\* A value of a type that can only unmarshal, encoded: the converter
\* refuses.
C30_WitnessEncode ==
    /\ mode = "codec" /\ pc = "done"
    /\ input.type = PtrTo(OnlyUnmarshaler) /\ input.value = << <<"X">> >>
    /\ output.enc.inner /\ output.enc.err = "notMarshaler"

====
